---- MODULE Spec2Model ----
(***************************************************************************)
(* A model of the NetBox GitOps controller's reconciliation core:          *)
(* the client's Apply primitive, the cache, the cable reconciler and the   *)
(* device orchestrator, each translated from its Go source.                *)
(*                                                                         *)
(* Go strings the code computes on (Sprintf, sort.Strings, ToLower,        *)
(* TrimPrefix) are sequences of one-character strings.  Go interface       *)
(* values are records [k |-> dynamic type, v |-> value]; a type assertion  *)
(* or type switch of the code is a test of k.                              *)
(***************************************************************************)
EXTENDS Integers, Sequences, FiniteSets, TLC

VARIABLES
    cables,          \* the remote's cables
    nextCableID,     \* the id the remote gives the next cable
    respShape,       \* the shape the remote returns cables in
    dryRun,          \* NetBoxClient.dryRun
    objects,         \* the remote's objects of the resource Apply is used on
    nextObjectID,    \* the id the remote gives the next object
    managedTagID,    \* NetBoxClient.managedTagID
    cache,           \* CacheManager.cache: resource -> (key -> id)
    siteLoads,       \* history: the sites LoadSite was called for since the last invalidation
    processedPairs,  \* CableReconciler.processedPairs
    touched,         \* history: the (A, B) calls that went past the processed-pair check
    pendingCables,   \* DeviceReconciler.pendingCables
    run,             \* where ReconcileDevices stands: its phase, its batch, the device in turn
    sync,            \* where runSync stands, and what the data directory declares
    mu,              \* CacheManager.mu: the goroutine holding it locked, those holding it read-locked
    goroutines,      \* the cache call each goroutine is in, and where it stands in it
    last             \* history: the last call, its inputs and what it did

vars == << cables, nextCableID, respShape, dryRun, objects, nextObjectID, managedTagID,
          cache, siteLoads, processedPairs, touched, pendingCables, run, sync, mu, goroutines,
          last >>

(***************************************************************************)
(* Strings                                                                 *)
(***************************************************************************)

\* The characters in byte order (the order sort.Strings compares by).
Alphabet ==
    << " ", "#", "-", ".", "0", "1", "2", "3", "4", "5", "6", "7", "8", "9",
       ":", "<", ">", "A", "B", "C", "D", "E", "F",
       "a", "b", "c", "d", "e", "f", "g", "h", "i", "j", "k", "l", "m",
       "n", "o", "p", "q", "r", "s", "t", "u", "v", "w", "x", "y", "z" >>

Ord(c) == CHOOSE i \in 1..Len(Alphabet) : Alphabet[i] = c

RECURSIVE StrLess(_, _)
StrLess(s, t) ==
    IF s = <<>> THEN t # <<>>
    ELSE IF t = <<>> THEN FALSE
    ELSE IF Head(s) = Head(t) THEN StrLess(Tail(s), Tail(t))
    ELSE Ord(Head(s)) < Ord(Head(t))

Digit(n) == Alphabet[5 + n]

RECURSIVE Itoa(_)
Itoa(n) == IF n < 10 THEN << Digit(n) >> ELSE Itoa(n \div 10) \o << Digit(n % 10) >>

LowerChar(c) ==
    CASE c = "A" -> "a" [] c = "B" -> "b" [] c = "C" -> "c"
      [] c = "D" -> "d" [] c = "E" -> "e" [] c = "F" -> "f"
      [] OTHER -> c

ToLower(s) == [i \in 1..Len(s) |-> LowerChar(s[i])]

RECURSIVE TrimLeft(_)
TrimLeft(s) == IF s # <<>> /\ Head(s) = " " THEN TrimLeft(Tail(s)) ELSE s

RECURSIVE TrimRight(_)
TrimRight(s) ==
    IF s # <<>> /\ s[Len(s)] = " " THEN TrimRight(SubSeq(s, 1, Len(s) - 1)) ELSE s

TrimSpace(s) == TrimRight(TrimLeft(s))

HasPrefix(s, p) == Len(s) >= Len(p) /\ SubSeq(s, 1, Len(p)) = p

TrimPrefix(s, p) == IF HasPrefix(s, p) THEN SubSeq(s, Len(p) + 1, Len(s)) ELSE s

(***************************************************************************)
(* Go interface values                                                     *)
(***************************************************************************)

Nil == [k |-> "nil"]
GoInt(n) == [k |-> "int", v |-> n]
GoFloat(n) == [k |-> "float64", v |-> n]
GoStr(s) == [k |-> "string", v |-> s]
GoBool(b) == [k |-> "bool", v |-> b]
\* map[string]interface{}: what encoding/json builds for a nested object
GoMap(m) == [k |-> "map", v |-> m]
\* client.Object, the named map type of every Filter, Get and Create result
Object(m) == [k |-> "Object", v |-> m]
\* []interface{}: what encoding/json builds for an array
GoList(s) == [k |-> "list", v |-> s]
\* []int
GoInts(s) == [k |-> "ints", v |-> s]

\* m[key] of a Go map: the zero value nil when the key is absent
Field(m, key) == IF key \in DOMAIN m THEN m[key] ELSE Nil

\* obj[key] of a client.Object or a map[string]interface{}
Index(obj, key) == Field(obj.v, key)

IsDigit(c) == c \in {"0", "1", "2", "3", "4", "5", "6", "7", "8", "9"}

RECURSIVE DigitsValue(_, _)
DigitsValue(s, acc) ==
    IF s # <<>> /\ IsDigit(Head(s))
    THEN DigitsValue(Tail(s), 10 * acc + (Ord(Head(s)) - 5))
    ELSE acc

\* fmt.Sscanf(v, "%d", &id): leading spaces are skipped and the leading digits
\* are read; without a leading digit the scan fails and the caller returns 0.
SscanfInt(s) ==
    LET t == TrimLeft(s) IN
    IF t # <<>> /\ IsDigit(Head(t)) THEN DigitsValue(t, 0) ELSE 0

\* utils.GetIDFromObject: the type switch has a case for map[string]interface{}
\* and none for a named map type, so a client.Object falls through to 0.
GetIDFromObject(obj) ==
    CASE obj.k = "nil" -> 0
      [] obj.k = "int" -> obj.v
      [] obj.k = "float64" -> obj.v
      [] obj.k = "string" -> SscanfInt(obj.v)
      [] obj.k = "map" ->
            LET id == Field(obj.v, "id") IN
            IF id.k \in {"int", "float64"} THEN id.v
            ELSE IF id.k = "string" THEN SscanfInt(id.v)
            ELSE 0
      [] OTHER -> 0

(***************************************************************************)
(* Cables: the remote's ports and cables, and pkg/reconciler/cables.go     *)
(***************************************************************************)

T_interface == << "d", "c", "i", "m", ".", "i", "n", "t", "e", "r", "f", "a", "c", "e" >>
T_frontport == << "d", "c", "i", "m", ".", "f", "r", "o", "n", "t", "p", "o", "r", "t" >>
T_rearport == << "d", "c", "i", "m", ".", "r", "e", "a", "r", "p", "o", "r", "t" >>

\* CableEndpoint values the reconciler is called with.  Object ids are per
\* object type in the remote, so an interface and a front port may share one.
EndSrv == [DeviceName |-> << "s", "r", "v" >>, PortName |-> << "e", "0" >>,
           ObjectType |-> T_interface, ObjectID |-> 1]
EndPP == [DeviceName |-> << "p", "p" >>, PortName |-> << "1" >>,
          ObjectType |-> T_frontport, ObjectID |-> 1]
EndSw == [DeviceName |-> << "s", "w" >>, PortName |-> << "e", "1" >>,
          ObjectType |-> T_interface, ObjectID |-> 2]
Endpoints == {EndSrv, EndPP, EndSw}
\* a nil *CableEndpoint
NilEnd == [DeviceName |-> <<>>, PortName |-> <<>>, ObjectType |-> <<>>, ObjectID |-> -1]

\* the remote's port objects: (object type, object id)
TermOf(e) == [type |-> e.ObjectType, id |-> e.ObjectID]
RemotePorts == {TermOf(e) : e \in Endpoints}

\* models.LinkConfig values (PeerDevice and PeerPort are resolved before
\* ReconcileCable is called and are not read by it)
LinkBlue == [CableType |-> << "c", "a", "t", "6" >>, Color |-> << "B", "l", "u", "e" >>,
             Length |-> 0, LengthUnit |-> <<>>]
LinkRed == [CableType |-> <<>>, Color |-> << "#", "F", "F", "0", "0", "0", "0" >>,
            Length |-> 5, LengthUnit |-> << "m" >>]
\* a nil *LinkConfig
NilLink == [CableType |-> <<>>, Color |-> <<>>, Length |-> -1, LengthUnit |-> <<>>]
Links == {LinkRed, NilLink}

cableColorMap ==
    { << << "p", "u", "r", "p", "l", "e" >>, << "8", "0", "0", "0", "8", "0" >> >>,
      << << "b", "l", "u", "e" >>, << "0", "0", "0", "0", "f", "f" >> >>,
      << << "y", "e", "l", "l", "o", "w" >>, << "f", "f", "f", "f", "0", "0" >> >>,
      << << "r", "e", "d" >>, << "f", "f", "0", "0", "0", "0" >> >>,
      << << "w", "h", "i", "t", "e" >>, << "f", "f", "f", "f", "f", "f" >> >>,
      << << "b", "l", "a", "c", "k" >>, << "0", "0", "0", "0", "0", "0" >> >>,
      << << "g", "r", "a", "y" >>, << "8", "0", "8", "0", "8", "0" >> >>,
      << << "g", "r", "e", "y" >>, << "8", "0", "8", "0", "8", "0" >> >>,
      << << "o", "r", "a", "n", "g", "e" >>, << "f", "f", "a", "5", "0", "0" >> >>,
      << << "g", "r", "e", "e", "n" >>, << "0", "0", "8", "0", "0", "0" >> >> }

normalizeColor(colorInput) ==
    IF colorInput = <<>> THEN <<>>
    ELSE LET raw == ToLower(TrimSpace(colorInput)) IN
         IF \E e \in cableColorMap : e[1] = raw
         THEN (CHOOSE e \in cableColorMap : e[1] = raw)[2]
         ELSE TrimPrefix(raw, << "#" >>)

\* The managed tag as the remote holds it.
GitopsTag == [id |-> 7, slug |-> << "g", "i", "t", "o", "p", "s" >>]

\* A remote cable is [id, a, b, type, color, length, length_unit, tagged]:
\* a and b are terminations, length 0 is no length, tagged says whether the
\* cable carries the managed tag.

PortBusy(cs, t) == \E c \in cs : c.a = t \/ c.b = t

\* The two shapes a cable is returned in (spec section 6): flat termination
\* fields, or termination arrays.
TermJSON(t) == GoMap([object_type |-> GoStr(t.type), object_id |-> GoFloat(t.id)])

CableJSON(c, shape) ==
    LET common == [id |-> GoFloat(c.id), type |-> GoStr(c.type), color |-> GoStr(c.color),
                   length |-> IF c.length = 0 THEN Nil ELSE GoFloat(c.length),
                   tags |-> GoList(IF c.tagged
                                   THEN << GoMap([id |-> GoFloat(GitopsTag.id),
                                                  slug |-> GoStr(GitopsTag.slug)]) >>
                                   ELSE <<>>)]
    IN  IF shape = "flat"
        THEN Object(common @@ [termination_a_type |-> GoStr(c.a.type),
                               termination_a_id |-> GoFloat(c.a.id),
                               termination_b_type |-> GoStr(c.b.type),
                               termination_b_id |-> GoFloat(c.b.id)])
        ELSE Object(common @@ [a_terminations |-> GoList(<< TermJSON(c.a) >>),
                               b_terminations |-> GoList(<< TermJSON(c.b) >>)])

\* A port as the remote returns it: its cable is a nested reference or null.
PortJSON(t, cs) ==
    Object([id |-> GoFloat(t.id),
            cable |-> IF PortBusy(cs, t)
                      THEN GoMap([id |-> GoFloat((CHOOSE c \in cs : c.a = t \/ c.b = t).id)])
                      ELSE Nil])

RECURSIVE SortByID(_)
SortByID(S) ==
    IF S = {} THEN <<>>
    ELSE LET m == CHOOSE c \in S : \A d \in S : c.id <= d.id
         IN  << m >> \o SortByID(S \ {m})

\* GET /api/dcim/cables/?termination_a_type=..&termination_a_id=..
FilterCablesA(cs, shape, e) ==
    LET hits == SortByID({c \in cs : c.a.type = e.ObjectType /\ c.a.id = e.ObjectID})
    IN  [i \in 1..Len(hits) |-> CableJSON(hits[i], shape)]

\* GET /api/dcim/<endpoint>/?id=..
FilterPortByID(cs, type, id) ==
    IF [type |-> type, id |-> id] \in RemotePorts
    THEN << PortJSON([type |-> type, id |-> id], cs) >>
    ELSE <<>>

\* createPairID without the sort: the A end always comes first
createPairIDUnsorted(aEnd, bEnd) ==
    LET aID == aEnd.ObjectType \o << ":" >> \o aEnd.DeviceName \o << ":" >> \o Itoa(aEnd.ObjectID)
        bID == bEnd.ObjectType \o << ":" >> \o bEnd.DeviceName \o << ":" >> \o Itoa(bEnd.ObjectID)
    IN  aID \o << " ", "<", "-", ">", " " >> \o bID

\* createPairID with the two ends ordered by their object ids alone
createPairIDByObjectID(aEnd, bEnd) ==
    LET aID == aEnd.ObjectType \o << ":" >> \o aEnd.DeviceName \o << ":" >> \o Itoa(aEnd.ObjectID)
        bID == bEnd.ObjectType \o << ":" >> \o bEnd.DeviceName \o << ":" >> \o Itoa(bEnd.ObjectID)
        ids == IF bEnd.ObjectID < aEnd.ObjectID THEN << bID, aID >> ELSE << aID, bID >>
    IN  ids[1] \o << " ", "<", "-", ">", " " >> \o ids[2]

createPairID(aEnd, bEnd) ==
    LET aID == aEnd.ObjectType \o << ":" >> \o aEnd.DeviceName \o << ":" >> \o Itoa(aEnd.ObjectID)
        bID == bEnd.ObjectType \o << ":" >> \o bEnd.DeviceName \o << ":" >> \o Itoa(bEnd.ObjectID)
        ids == IF StrLess(bID, aID) THEN << bID, aID >> ELSE << aID, bID >>
    IN  ids[1] \o << " ", "<", "-", ">", " " >> \o ids[2]

matchesEndpoint(cable, side, endpoint) ==
    LET typeKey == IF side = "a" THEN "termination_a_type" ELSE "termination_b_type"
        idKey == IF side = "a" THEN "termination_a_id" ELSE "termination_b_id"
        t == Index(cable, typeKey)
        i == Index(cable, idKey)
        cableType == IF t.k = "string" THEN t.v ELSE <<>>
        cableID == IF i.k = "float64" THEN i.v
                   ELSE IF i.k = "map"
                        THEN LET id == Field(i.v, "id") IN
                             IF id.k = "float64" THEN id.v ELSE 0
                        ELSE 0
    IN  cableType = endpoint.ObjectType /\ cableID = endpoint.ObjectID

\* [cable |-> the cable found or Nil, reads |-> the list requests sent]
findExistingCable(aEnd, bEnd, cs, shape) ==
    LET l1 == FilterCablesA(cs, shape, aEnd)
        h1 == {i \in 1..Len(l1) : matchesEndpoint(l1[i], "b", bEnd)}
        l2 == FilterCablesA(cs, shape, bEnd)
        h2 == {i \in 1..Len(l2) : matchesEndpoint(l2[i], "b", aEnd)}
    IN  IF h1 # {} THEN [cable |-> l1[CHOOSE i \in h1 : \A j \in h1 : i <= j], reads |-> 1]
        ELSE IF h2 # {} THEN [cable |-> l2[CHOOSE i \in h2 : \A j \in h2 : i <= j], reads |-> 2]
        ELSE [cable |-> Nil, reads |-> 2]

verifyCable(cable, link) ==
    IF link = NilLink THEN TRUE
    ELSE LET t == Index(cable, "type")
             c == Index(cable, "color")
             l == Index(cable, "length")
         IN  /\ ~(link.CableType # <<>> /\ t.k = "string" /\ t.v # link.CableType)
             /\ ~(link.Color # <<>> /\ c.k = "string" /\ c.v # normalizeColor(link.Color))
             /\ ~(link.Length > 0 /\ l.k = "float64" /\ l.v # link.Length)

cableConnectsTo(cable, targetObjectID) ==
    LET hit(terms) ==
            /\ terms.k = "list"
            /\ \E i \in 1..Len(terms.v) :
                  /\ terms.v[i].k = "map"
                  /\ LET objID == Field(terms.v[i].v, "object_id") IN
                     objID.k = "float64" /\ objID.v = targetObjectID
    IN  hit(Index(cable, "a_terminations")) \/ hit(Index(cable, "b_terminations"))

\* A request that reached the remote: method, endpoint, object id, JSON body,
\* and (for the record) whether the addressed object carried the managed tag.
Req(method, endpoint, id, body, managed) ==
    [method |-> method, endpoint |-> endpoint, id |-> id, body |-> body, managed |-> managed]

NoBody == [x \in {} |-> Nil]

IsWrite(method) == method \in {"POST", "PATCH", "PUT", "DELETE"}

\* Request without the dry-run interception: every call is sent
RequestAlwaysSends(method, endpoint, id, body, managed, dry) ==
    [reqs |-> << Req(method, endpoint, id, body, managed) >>, intercepted |-> FALSE,
     resp |-> Nil]

\* NetBoxClient.Request for a mutating method: in dry-run the call is
\* intercepted and answered with Object{"id": 0}; otherwise the request is
\* sent.  [reqs |-> what went out, resp |-> the intercepted answer or Nil]
Request(method, endpoint, id, body, managed, dry) ==
    IF dry /\ IsWrite(method)
    THEN [reqs |-> <<>>, intercepted |-> TRUE, resp |-> Object([id |-> GoInt(0)])]
    ELSE [reqs |-> << Req(method, endpoint, id, body, managed) >>, intercepted |-> FALSE,
          resp |-> Nil]

CableTagged(cs, id) == \E c \in cs : c.id = id /\ c.tagged

\* The attributes a payload sets, as the remote reads them.
BodyStr(body, key, old) == IF key \in DOMAIN body THEN body[key].v ELSE old
BodyTagged(body, old) ==
    IF "tags" \in DOMAIN body
    THEN body["tags"].k = "ints" /\ \E i \in 1..Len(body["tags"].v) : body["tags"].v[i] = GitopsTag.id
    ELSE old

\* The remote's handling of one request on /api/dcim/cables/.  A create is
\* refused (HTTP 400) when a termination is occupied or both are one port.
\* [cs, nid, ok]
RemoteCables(cs, nid, req) ==
    CASE req.method = "POST" ->
            LET a == [type |-> req.body["a_terminations"].v[1].object_type,
                      id |-> req.body["a_terminations"].v[1].object_id]
                b == [type |-> req.body["b_terminations"].v[1].object_type,
                      id |-> req.body["b_terminations"].v[1].object_id]
            IN  IF a = b \/ PortBusy(cs, a) \/ PortBusy(cs, b)
                   \/ a \notin RemotePorts \/ b \notin RemotePorts
                THEN [cs |-> cs, nid |-> nid, ok |-> FALSE]
                ELSE [cs |-> cs \cup {[id |-> nid, a |-> a, b |-> b,
                                       type |-> BodyStr(req.body, "type", <<>>),
                                       color |-> BodyStr(req.body, "color", <<>>),
                                       length |-> BodyStr(req.body, "length", 0),
                                       length_unit |-> BodyStr(req.body, "length_unit", <<>>),
                                       tagged |-> BodyTagged(req.body, FALSE)]},
                      nid |-> nid + 1, ok |-> TRUE]
      [] req.method = "PATCH" ->
            IF \E c \in cs : c.id = req.id
            THEN [cs |-> {IF c.id = req.id
                          THEN [c EXCEPT !.type = BodyStr(req.body, "type", @),
                                         !.color = BodyStr(req.body, "color", @),
                                         !.length = BodyStr(req.body, "length", @),
                                         !.length_unit = BodyStr(req.body, "length_unit", @),
                                         !.tagged = BodyTagged(req.body, @)]
                          ELSE c : c \in cs},
                  nid |-> nid, ok |-> TRUE]
            ELSE [cs |-> cs, nid |-> nid, ok |-> FALSE]
      [] req.method = "DELETE" ->
            IF \E c \in cs : c.id = req.id
            THEN [cs |-> {c \in cs : c.id # req.id}, nid |-> nid, ok |-> TRUE]
            ELSE [cs |-> cs, nid |-> nid, ok |-> FALSE]
      [] OTHER -> [cs |-> cs, nid |-> nid, ok |-> TRUE]

\* What can go wrong at the remote during one ReconcileCable call: nothing
\* ("none"), or a failing cable list query ("list"), port query ("port"),
\* cable fetch ("get") or write ("write").
Faults == {"none", "list", "port", "get", "write"}

\* Sends the requests of one client call to the remote.  [cs, nid, ok]
Send(cs, nid, call, fault) ==
    IF call.reqs = <<>> THEN [cs |-> cs, nid |-> nid, ok |-> TRUE]
    ELSE IF fault = "write" THEN [cs |-> cs, nid |-> nid, ok |-> FALSE]
    ELSE RemoteCables(cs, nid, call.reqs[1])

\* GET /api/dcim/cables/<id>/
GetCable(cs, shape, id) ==
    IF \E c \in cs : c.id = id
    THEN CableJSON(CHOOSE c \in cs : c.id = id, shape)
    ELSE Nil

\* createCable's payload and call.  [call, dryLogged]
createCablePayload(aEnd, bEnd, link) ==
    LET base == [a_terminations |-> [k |-> "maps",
                                     v |-> << [object_type |-> aEnd.ObjectType,
                                               object_id |-> aEnd.ObjectID] >>],
                 b_terminations |-> [k |-> "maps",
                                     v |-> << [object_type |-> bEnd.ObjectType,
                                               object_id |-> bEnd.ObjectID] >>],
                 status |-> GoStr(<< "c", "o", "n", "n", "e", "c", "t", "e", "d" >>)]
        p1 == IF link # NilLink /\ link.CableType # <<>>
              THEN [type |-> GoStr(link.CableType)] ELSE NoBody
        p2 == IF link # NilLink /\ link.Color # <<>>
              THEN [color |-> GoStr(normalizeColor(link.Color))] ELSE NoBody
        p3 == IF link # NilLink /\ link.Length > 0
              THEN [length |-> GoFloat(link.Length)] ELSE NoBody
        p4 == IF link # NilLink /\ link.LengthUnit # <<>>
              THEN [length_unit |-> GoStr(link.LengthUnit)] ELSE NoBody
    IN  base @@ p1 @@ p2 @@ p3 @@ p4

createCable(aEnd, bEnd, link, dry) ==
    IF dry THEN [reqs |-> <<>>, intercepted |-> FALSE, resp |-> Nil]
    ELSE Request("POST", "cables", 0, createCablePayload(aEnd, bEnd, link), FALSE, dry)

\* updateCable.  [err, call]
updateCable(cable, link, dry, cs) ==
    LET none == [reqs |-> <<>>, intercepted |-> FALSE, resp |-> Nil]
        cableID == GetIDFromObject(cable)
        u1 == IF link.CableType # <<>> THEN [type |-> GoStr(link.CableType)] ELSE NoBody
        u2 == IF link.Color # <<>> THEN [color |-> GoStr(normalizeColor(link.Color))] ELSE NoBody
        u3 == IF link.Length > 0 THEN [length |-> GoFloat(link.Length)] ELSE NoBody
        u4 == IF link.LengthUnit # <<>> THEN [length_unit |-> GoStr(link.LengthUnit)] ELSE NoBody
        updates == u1 @@ u2 @@ u3 @@ u4
    IN  IF link = NilLink THEN [err |-> FALSE, call |-> none]
        ELSE IF cableID = 0 THEN [err |-> TRUE, call |-> none]
        ELSE IF DOMAIN updates = {} THEN [err |-> FALSE, call |-> none]
        ELSE IF dry THEN [err |-> FALSE, call |-> none]
        ELSE [err |-> FALSE,
              call |-> Request("PATCH", "cables", cableID, updates, CableTagged(cs, cableID), dry)]

\* The result of a port check: skipCreation, error, the remote's cables
\* afterwards, the reads made and the write requests sent.
PortCheck(skip, err, cs, reads, writes) ==
    [skip |-> skip, err |-> err, cs |-> cs, reads |-> reads, writes |-> writes]

PortEndpoint(objectType) ==
    CASE objectType = T_interface -> "interfaces"
      [] objectType = T_frontport -> "front-ports"
      [] objectType = T_rearport -> "rear-ports"
      [] OTHER -> ""

\* the cable id a port's "cable" reference holds (0 when unusable)
CableRefID(cableRef) ==
    IF cableRef.k = "float64" THEN cableRef.v
    ELSE IF cableRef.k = "map"
         THEN LET id == Field(cableRef.v, "id") IN IF id.k = "float64" THEN id.v ELSE 0
         ELSE 0

checkAndCleanLocalPort(aEnd, bEnd, cs, nid, shape, dry, fault) ==
    LET endpoint == PortEndpoint(aEnd.ObjectType)
        localPorts == FilterPortByID(cs, aEnd.ObjectType, aEnd.ObjectID)
    IN  IF endpoint = "" THEN PortCheck(FALSE, TRUE, cs, 0, <<>>)
        ELSE IF fault = "port" \/ localPorts = <<>> THEN PortCheck(FALSE, FALSE, cs, 1, <<>>)
        ELSE LET cableRef == Index(localPorts[1], "cable")
                 cableID == CableRefID(cableRef)
             IN  IF cableRef.k = "nil" \/ cableID = 0 THEN PortCheck(FALSE, FALSE, cs, 1, <<>>)
                 ELSE LET existingCable == IF fault = "get" THEN Nil
                                           ELSE GetCable(cs, shape, cableID)
                      IN  IF existingCable.k = "nil" THEN PortCheck(FALSE, FALSE, cs, 2, <<>>)
                          ELSE IF cableConnectsTo(existingCable, bEnd.ObjectID)
                          THEN PortCheck(TRUE, FALSE, cs, 2, <<>>)
                          ELSE IF ~dry
                          THEN LET call == Request("DELETE", "cables", cableID, NoBody,
                                                   CableTagged(cs, cableID), dry)
                                   sent == Send(cs, nid, call, fault)
                               IN  PortCheck(FALSE, ~sent.ok, sent.cs, 2, call.reqs)
                          ELSE PortCheck(FALSE, FALSE, cs, 2, <<>>)

checkAndCleanPeerPort(aEnd, bEnd, link, cs, nid, shape, dry, fault) ==
    LET endpoint == PortEndpoint(bEnd.ObjectType)
        peerPorts == FilterPortByID(cs, bEnd.ObjectType, bEnd.ObjectID)
    IN  IF endpoint = "" THEN PortCheck(FALSE, TRUE, cs, 0, <<>>)
        ELSE IF fault = "port" \/ peerPorts = <<>> THEN PortCheck(FALSE, FALSE, cs, 1, <<>>)
        ELSE LET cableRef == Index(peerPorts[1], "cable")
                 cableID == CableRefID(cableRef)
             IN  IF cableRef.k = "nil" \/ cableID = 0 THEN PortCheck(FALSE, FALSE, cs, 1, <<>>)
                 ELSE LET existingCable == IF fault = "get" THEN Nil
                                           ELSE GetCable(cs, shape, cableID)
                      IN  IF existingCable.k = "nil" THEN PortCheck(FALSE, FALSE, cs, 2, <<>>)
                          ELSE IF cableConnectsTo(existingCable, aEnd.ObjectID)
                          THEN PortCheck(TRUE, FALSE, cs, 2, <<>>)
                          ELSE IF ~dry
                          THEN LET call == Request("DELETE", "cables", cableID, NoBody,
                                                   CableTagged(cs, cableID), dry)
                                   sent == Send(cs, nid, call, fault)
                               IN  PortCheck(FALSE, ~sent.ok, sent.cs, 2, call.reqs)
                          ELSE PortCheck(FALSE, FALSE, cs, 2, <<>>)

\* The outcome of one ReconcileCable call: no error, whether the call went
\* past the processed-pair check, the processed-pair set and the remote
\* afterwards, the reads made and the write requests sent.
Outcome(ok, passed, pairs, cs, nid, reads, writes) ==
    [ok |-> ok, passed |-> passed, pairs |-> pairs, cs |-> cs, nid |-> nid,
     reads |-> reads, writes |-> writes]

\* a call that takes every pair of endpoints, nil ones too, past the
\* processed-pair mark and the first lookup before it gives up
ReconcileCableOutcomeMarksFirst(aEnd, bEnd, link, pairs, cs, nid, shape, dry, fault) ==
    Outcome(FALSE, TRUE,
            pairs \cup {aEnd.ObjectType \o << ":" >> \o bEnd.ObjectType}, cs, nid, 1, <<>>)

ReconcileCableOutcome(aEnd, bEnd, link, pairs, cs, nid, shape, dry, fault) ==
    IF aEnd = NilEnd \/ bEnd = NilEnd THEN Outcome(FALSE, FALSE, pairs, cs, nid, 0, <<>>)
    ELSE
    LET pairID == createPairID(aEnd, bEnd)
        marked == pairs \cup {pairID}
        found == findExistingCable(aEnd, bEnd, cs, shape)
    IN  IF pairID \in pairs THEN Outcome(TRUE, FALSE, pairs, cs, nid, 0, <<>>)
        ELSE IF fault = "list" THEN Outcome(FALSE, TRUE, marked, cs, nid, 1, <<>>)
        ELSE IF found.cable.k # "nil"
        THEN IF verifyCable(found.cable, link)
             THEN Outcome(TRUE, TRUE, marked, cs, nid, found.reads, <<>>)
             ELSE LET upd == updateCable(found.cable, link, dry, cs)
                      sent == Send(cs, nid, upd.call, fault)
                  IN  Outcome(~upd.err /\ sent.ok, TRUE, marked, sent.cs, sent.nid,
                              found.reads, upd.call.reqs)
        ELSE
        LET local == checkAndCleanLocalPort(aEnd, bEnd, cs, nid, shape, dry, fault)
        IN  IF local.err \/ local.skip
            THEN Outcome(~local.err, TRUE, marked, local.cs, nid,
                         found.reads + local.reads, local.writes)
            ELSE
            LET peer == checkAndCleanPeerPort(aEnd, bEnd, link, local.cs, nid, shape, dry, fault)
            IN  IF peer.err \/ peer.skip
                THEN Outcome(~peer.err, TRUE, marked, peer.cs, nid,
                             found.reads + local.reads + peer.reads,
                             local.writes \o peer.writes)
                ELSE
                LET call == createCable(aEnd, bEnd, link, dry)
                    sent == Send(peer.cs, nid, call, fault)
                IN  Outcome(sent.ok, TRUE, marked, sent.cs, sent.nid,
                            found.reads + local.reads + peer.reads,
                            local.writes \o peer.writes \o call.reqs)

(***************************************************************************)
(* The client: TagManager (pkg/client/tags.go) and NetBoxClient.Apply      *)
(***************************************************************************)

\* /api/extras/tags/?slug=gitops as the remote answers it
RemoteTags == << Object([id |-> GoFloat(GitopsTag.id), slug |-> GoStr(GitopsTag.slug)]) >>

\* TagManager.Ensure as NewClient calls it: the id the client keeps as
\* managedTagID.  created is the answer to the create request.
Ensure(dry, tags, created) ==
    IF dry THEN 0
    ELSE IF Len(tags) > 0 THEN GetIDFromObject(tags[1])
    ELSE GetIDFromObject(created)

\* the bare id InjectTag reads from one entry of payload["tags"]
InjectedID(tag) == IF tag.k = "int" THEN tag.v ELSE GetIDFromObject(tag)

InjectTag(payload, tagID) ==
    IF tagID = 0 THEN payload
    ELSE LET given == Field(payload, "tags")
             existingTags == IF given.k = "list" THEN given.v ELSE <<>>
             kept == SelectSeq(existingTags,
                               LAMBDA t : t.k = "int" \/ (t.k = "map" /\ GetIDFromObject(t) # 0))
             ids == [i \in 1..Len(kept) |-> InjectedID(kept[i])]
             hasManaged == \E i \in 1..Len(ids) : ids[i] = tagID
             tagIDs == IF hasManaged THEN ids ELSE Append(ids, tagID)
         IN  [k \in DOMAIN payload \cup {"tags"} |->
                 IF k = "tags" THEN GoInts(tagIDs) ELSE payload[k]]

extractTagIDs(tags) ==
    CASE tags.k = "list" ->
            LET kept == SelectSeq(tags.v, LAMBDA t : GetIDFromObject(t) # 0)
            IN  [i \in 1..Len(kept) |-> GetIDFromObject(kept[i])]
      [] tags.k = "ints" -> tags.v
      [] OTHER -> <<>>

tagsEqual(existing, desired) ==
    LET existingTags == extractTagIDs(existing)
        desiredTags == extractTagIDs(desired)
    IN  /\ Len(existingTags) = Len(desiredTags)
        /\ \A i \in 1..Len(desiredTags) :
              \E j \in 1..Len(existingTags) : existingTags[j] = desiredTags[i]

\* Go's == on two interface values: equal dynamic types and equal values.
\* Two values of one slice or map type cannot be compared (the program
\* panics); no equality is reported for them.
InterfaceEq(a, b) ==
    IF a.k # b.k THEN FALSE
    ELSE IF a.k = "nil" THEN TRUE
    ELSE IF a.k \in {"int", "float64", "string", "bool"} THEN a.v = b.v
    ELSE FALSE

valuesEqual(a, b) ==
    CASE a.k = "float64" /\ b.k = "int" -> a.v = b.v
      [] a.k = "int" /\ b.k = "float64" -> a.v = b.v
      [] a.k = "string" /\ b.k = "string" -> a.v = b.v
      [] OTHER -> InterfaceEq(a, b)

calculateDiff(existing, desired) ==
    LET changed(key) ==
            LET desiredValue == desired[key]
                existingValue == Index(existing, key)
            IN  IF desiredValue.k = "nil" THEN FALSE
                ELSE IF key \notin DOMAIN existing.v THEN TRUE
                ELSE IF key = "tags" THEN ~tagsEqual(existingValue, desiredValue)
                ELSE IF existingValue.k = "map"
                THEN ~valuesEqual(GoInt(GetIDFromObject(existingValue)), desiredValue)
                ELSE ~valuesEqual(existingValue, desiredValue)
    IN  [key \in {k \in DOMAIN desired : changed(k)} |-> desired[key]]

\* A remote object is [endpoint, id, name, description, site, device,
\* rear_port, role, tags]: endpoint is the collection it lives in, site,
\* device, rear_port and role the ids of the objects it refers to (0 for
\* none), tags the ids of its tags.
N_mgmt == << "m", "g", "m", "t" >>
N_idrac == << "i", "d", "r", "a", "c" >>
D_old == << "o", "l", "d" >>
D_new == << "n", "e", "w" >>

R_server == << "s", "e", "r", "v", "e", "r" >>
R_patchpanel == << "p", "a", "t", "c", "h", "-", "p", "a", "n", "e", "l" >>
RemoteRoles == << [id |-> 1, slug |-> R_server], [id |-> 2, slug |-> R_patchpanel] >>

RemoteObject(endpoint, id, name) ==
    [endpoint |-> endpoint, id |-> id, name |-> name, description |-> <<>>, site |-> 0,
     device |-> 0, rear_port |-> 0, role |-> 0, tags |-> {}]

\* a reference to another object as the remote nests it in its answers
Nested(id) == IF id = 0 THEN Nil ELSE GoMap([id |-> GoFloat(id)])

ObjectJSON(o) ==
    Object([id |-> GoFloat(o.id), name |-> GoStr(o.name),
            description |-> GoStr(o.description),
            site |-> Nested(o.site),
            device |-> Nested(o.device),
            rear_port |-> Nested(o.rear_port),
            role |-> IF o.role \in 1..Len(RemoteRoles)
                     THEN GoMap([id |-> GoFloat(o.role),
                                 slug |-> GoStr(RemoteRoles[o.role].slug)])
                     ELSE Nil,
            tags |-> GoList([i \in 1..Cardinality(o.tags) |->
                               GoMap([id |-> GoFloat(GitopsTag.id),
                                      slug |-> GoStr(GitopsTag.slug)])])])

\* GET /api/<app>/<endpoint>/?name=..&site_id=..&device_id=..
FilterObjects(objs, endpoint, lookup) ==
    LET asks(key, value) == key \in DOMAIN lookup => lookup[key] = value
        hits == SortByID({o \in objs : /\ o.endpoint = endpoint
                                        /\ asks("name", GoStr(o.name))
                                        /\ asks("site_id", GoInt(o.site))
                                        /\ asks("device_id", GoInt(o.device))})
    IN  [i \in 1..Len(hits) |-> ObjectJSON(hits[i])]

ObjectAt(objs, endpoint, id) == {o \in objs : o.endpoint = endpoint /\ o.id = id}

ObjectTagged(objs, endpoint, id) ==
    \E o \in ObjectAt(objs, endpoint, id) : GitopsTag.id \in o.tags

BodyTags(body, old) ==
    IF "tags" \in DOMAIN body
    THEN IF body["tags"].k = "ints"
         THEN {body["tags"].v[i] : i \in 1..Len(body["tags"].v)}
         ELSE {}
    ELSE old

\* The remote's handling of one request on the resource.  [objs, nid, ok, resp]
RemoteObjects(objs, nid, req) ==
    CASE req.method = "POST" ->
            LET o == [endpoint |-> req.endpoint, id |-> nid,
                      name |-> BodyStr(req.body, "name", <<>>),
                      description |-> BodyStr(req.body, "description", <<>>),
                      site |-> BodyStr(req.body, "site", 0),
                      device |-> BodyStr(req.body, "device", 0),
                      rear_port |-> BodyStr(req.body, "rear_port", 0),
                      role |-> BodyStr(req.body, "role", 0),
                      tags |-> BodyTags(req.body, {})]
            IN  [objs |-> objs \cup {o}, nid |-> nid + 1, ok |-> TRUE, resp |-> ObjectJSON(o)]
      [] req.method = "PATCH" ->
            IF ObjectAt(objs, req.endpoint, req.id) # {}
            THEN LET old == CHOOSE o \in ObjectAt(objs, req.endpoint, req.id) : TRUE
                     new == [old EXCEPT !.name = BodyStr(req.body, "name", @),
                                        !.description = BodyStr(req.body, "description", @),
                                        !.site = BodyStr(req.body, "site", @),
                                        !.device = BodyStr(req.body, "device", @),
                                        !.rear_port = BodyStr(req.body, "rear_port", @),
                                        !.role = BodyStr(req.body, "role", @),
                                        !.tags = BodyTags(req.body, @)]
                 IN  [objs |-> (objs \ {old}) \cup {new}, nid |-> nid, ok |-> TRUE,
                      resp |-> ObjectJSON(new)]
            ELSE [objs |-> objs, nid |-> nid, ok |-> FALSE, resp |-> Nil]
      [] req.method = "DELETE" ->
            IF ObjectAt(objs, req.endpoint, req.id) # {}
            THEN [objs |-> objs \ ObjectAt(objs, req.endpoint, req.id), nid |-> nid,
                  ok |-> TRUE, resp |-> Nil]
            ELSE [objs |-> objs, nid |-> nid, ok |-> FALSE, resp |-> Nil]
      [] OTHER ->
            IF ObjectAt(objs, req.endpoint, req.id) # {}
            THEN [objs |-> objs, nid |-> nid, ok |-> TRUE,
                  resp |-> ObjectJSON(CHOOSE o \in ObjectAt(objs, req.endpoint, req.id) : TRUE)]
            ELSE [objs |-> objs, nid |-> nid, ok |-> FALSE, resp |-> Nil]

\* One client call that goes through Request, and the remote's answer:
\* [ok, resp, objs, nid, reads, writes, intercepted, synthetic]; synthetic is
\* what Request answered when it intercepted the call.
Do(method, endpoint, id, body, dry, objs, nid) ==
    LET call == Request(method, endpoint, id, body, ObjectTagged(objs, endpoint, id), dry)
        ans == IF call.intercepted
               THEN [objs |-> objs, nid |-> nid, ok |-> TRUE, resp |-> call.resp]
               ELSE RemoteObjects(objs, nid, call.reqs[1])
    IN  [ok |-> ans.ok, resp |-> IF ans.ok THEN ans.resp ELSE Nil,
         objs |-> ans.objs, nid |-> ans.nid,
         reads |-> IF call.intercepted \/ IsWrite(method) THEN 0 ELSE 1,
         writes |-> IF IsWrite(method) THEN call.reqs ELSE <<>>,
         intercepted |-> call.intercepted,
         synthetic |-> IF call.intercepted THEN call.resp ELSE Nil]

Create(endpoint, data, dry, objs, nid) == Do("POST", endpoint, 0, data, dry, objs, nid)
Update(endpoint, id, data, dry, objs, nid) == Do("PATCH", endpoint, id, data, dry, objs, nid)
Delete(endpoint, id, dry, objs, nid) == Do("DELETE", endpoint, id, NoBody, dry, objs, nid)
Get(endpoint, id, dry, objs, nid) == Do("GET", endpoint, id, NoBody, dry, objs, nid)

\* NetBoxClient.Apply: what one call does and answers
ApplyOutcome(endpoint, lookup, payload, tagID, dry, objs, nid) ==
    LET tagged == InjectTag(payload, tagID)
        existing == FilterObjects(objs, endpoint, lookup)
    IN  IF Len(existing) = 0
        THEN [Create(endpoint, tagged, dry, objs, nid) EXCEPT !.reads = 1]
        ELSE LET obj == existing[1]
                 objID == GetIDFromObject(obj)
                 changes == calculateDiff(obj, tagged)
                 none == [ok |-> TRUE, resp |-> obj, objs |-> objs, nid |-> nid,
                          reads |-> 1, writes |-> <<>>, intercepted |-> FALSE,
                          synthetic |-> Nil]
             IN  IF objID = 0 THEN [none EXCEPT !.ok = FALSE, !.resp = Nil]
                 ELSE IF DOMAIN changes # {}
                 THEN LET upd == Update(endpoint, objID, changes, dry, objs, nid)
                      IN  [upd EXCEPT !.reads = 1, !.resp = IF upd.ok THEN obj ELSE Nil]
                 ELSE none

\* GET /api/extras/tags/?slug=..; a remote tag is known by its slug
FilterTags(objs, slug) ==
    LET hits == SortByID({o \in objs : o.endpoint = "tags" /\ o.name = slug})
    IN  [i \in 1..Len(hits) |-> ObjectJSON(hits[i])]

\* POST /api/extras/tags/ as Ensure sends it: the remote refuses a second
\* tag of a slug (HTTP 400); fault is a failure of any other kind.
\* [ok, resp, objs, nid]
CreateTag(slug, objs, nid, fault) ==
    IF fault \/ Len(FilterTags(objs, slug)) > 0
    THEN [ok |-> FALSE, resp |-> Nil, objs |-> objs, nid |-> nid]
    ELSE [ok |-> TRUE, resp |-> ObjectJSON(RemoteObject("tags", nid, slug)),
          objs |-> objs \cup {RemoteObject("tags", nid, slug)}, nid |-> nid + 1]

\* TagManager.Ensure up to its first Filter: [pc, id, ok], pc the statement
\* Ensure is at afterwards
ensureLookup(dry, objs) ==
    IF dry THEN [pc |-> "done", id |-> 0, ok |-> TRUE]
    ELSE IF Len(FilterTags(objs, GitopsTag.slug)) > 0
    THEN [pc |-> "done", id |-> Ensure(dry, FilterTags(objs, GitopsTag.slug), Nil),
          ok |-> TRUE]
    ELSE [pc |-> "create", id |-> 0, ok |-> TRUE]

\* Ensure's Create of the tag: [pc, id, ok, objs, nid]
ensureCreate(objs, nid, fault) ==
    LET tag == CreateTag(GitopsTag.slug, objs, nid, fault)
    IN  IF tag.ok
        THEN [pc |-> "done", id |-> Ensure(FALSE, <<>>, tag.resp), ok |-> TRUE,
              objs |-> tag.objs, nid |-> tag.nid]
        ELSE [pc |-> "retry", id |-> 0, ok |-> TRUE, objs |-> objs, nid |-> nid]

\* Ensure's second Filter, after the Create failed: [pc, id, ok]
ensureRetry(objs) ==
    IF Len(FilterTags(objs, GitopsTag.slug)) > 0
    THEN [pc |-> "done", id |-> Ensure(FALSE, FilterTags(objs, GitopsTag.slug), Nil),
          ok |-> TRUE]
    ELSE [pc |-> "done", id |-> 0, ok |-> FALSE]

(***************************************************************************)
(* CacheManager (pkg/client/cache.go)                                      *)
(***************************************************************************)

\* The remote's sites, and the site-scoped objects (VLANs) it may hold: the
\* name idrac exists at both sites, under different ids.
S_a == << "a" >>
S_b == << "b" >>
RemoteSites == << [id |-> 1, slug |-> S_a], [id |-> 2, slug |-> S_b] >>
RemoteVlans == { [RemoteObject("vlans", 75, N_idrac) EXCEPT !.site = 1],
                 [RemoteObject("vlans", 74, N_idrac) EXCEPT !.site = 2],
                 [RemoteObject("vlans", 10, N_mgmt) EXCEPT !.site = 2] }

SiteJSON(st) == Object([id |-> GoFloat(st.id), slug |-> GoStr(st.slug), name |-> GoStr(st.slug)])

\* the remote's one device type; a device type has a model and no name
DT_generic == << "g", "e", "n" >>
RemoteDeviceTypes == << [id |-> 1, slug |-> DT_generic] >>
DeviceTypeJSON(dt) ==
    Object([id |-> GoFloat(dt.id), slug |-> GoStr(dt.slug), model |-> GoStr(dt.slug)])

GlobalResources == {"device_types", "module_types", "roles", "manufacturers", "sites", "vrfs"}
SiteResources == {"vlans", "racks", "vlan_groups"}

\* GET /api/<path>/ with the filters loadResource passes: siteFilter is 0 for
\* no filter, -1 for site_id=null, else the site id.
FilterResource(resource, siteFilter, objs) ==
    IF resource = "sites" THEN [i \in 1..Len(RemoteSites) |-> SiteJSON(RemoteSites[i])]
    ELSE IF resource = "roles" THEN [i \in 1..Len(RemoteRoles) |-> SiteJSON(RemoteRoles[i])]
    ELSE IF resource = "device_types"
    THEN [i \in 1..Len(RemoteDeviceTypes) |-> DeviceTypeJSON(RemoteDeviceTypes[i])]
    ELSE IF resource = "vlans"
    THEN LET hits == SortByID({o \in objs : /\ o.endpoint = "vlans"
                                             /\ (siteFilter = 0 \/ o.site = siteFilter)})
         IN  [i \in 1..Len(hits) |-> ObjectJSON(hits[i])]
    ELSE <<>>

\* cm.cache[resource][key] = id
Store(c, resource, key, id) ==
    [r \in DOMAIN c |->
        IF r = resource
        THEN [k \in DOMAIN c[r] \cup {key} |-> IF k = key THEN id ELSE c[r][k]]
        ELSE c[r]]

compositeKey(siteID, identifier) ==
    << "s", "i", "t", "e", "-" >> \o Itoa(siteID) \o << ":" >> \o identifier

storeKey(c, resource, siteID, identifier, id) ==
    IF siteID > 0 THEN Store(c, resource, compositeKey(siteID, identifier), id)
    ELSE Store(c, resource, identifier, id)

\* the body of loadResource's loop for one object
loadObject(c, resource, siteID, obj) ==
    LET id == GetIDFromObject(obj)
        slug == Index(obj, "slug")
        name == Index(obj, "name")
        model == Index(obj, "model")
        label == Index(obj, "label")
        c1 == IF slug.k = "string" THEN storeKey(c, resource, siteID, slug.v, id) ELSE c
    IN  IF id = 0 THEN c
        ELSE IF name.k = "string" THEN storeKey(c1, resource, siteID, name.v, id)
        ELSE IF model.k = "string" THEN storeKey(c1, resource, siteID, model.v, id)
        ELSE IF label.k = "string" THEN storeKey(c1, resource, siteID, label.v, id)
        ELSE c1

RECURSIVE loadObjects(_, _, _, _)
loadObjects(c, resource, siteID, objs) ==
    IF objs = <<>> THEN c
    ELSE loadObjects(loadObject(c, resource, siteID, Head(objs)), resource, siteID, Tail(objs))

loadResource(c, resource, siteFilter, siteID, objs) ==
    LET c0 == IF resource \in DOMAIN c THEN c
              ELSE [r \in DOMAIN c \cup {resource} |-> IF r = resource THEN << >> ELSE c[r]]
    IN  loadObjects(c0, resource, siteID, FilterResource(resource, siteFilter, objs))

\* [id, ok]
GetID(c, resource, identifier) ==
    IF resource \notin DOMAIN c THEN [id |-> 0, ok |-> FALSE]
    ELSE IF identifier \in DOMAIN c[resource]
    THEN [id |-> c[resource][identifier], ok |-> TRUE]
    ELSE [id |-> 0, ok |-> FALSE]

GetSiteID(c, resource, siteID, identifier) ==
    IF resource \notin DOMAIN c THEN [id |-> 0, ok |-> FALSE]
    ELSE IF compositeKey(siteID, identifier) \in DOMAIN c[resource]
    THEN [id |-> c[resource][compositeKey(siteID, identifier)], ok |-> TRUE]
    ELSE GetID(c, resource, identifier)

RECURSIVE loadAll(_, _, _, _, _)
\* loadResource for each resource of a set (the order does not matter: each
\* resource has its own map)
loadAll(c, resources, siteFilter, siteID, objs) ==
    IF resources = {} THEN c
    ELSE LET r == CHOOSE x \in resources : TRUE
         IN  loadAll(loadResource(c, r, siteFilter, siteID, objs), resources \ {r},
                     siteFilter, siteID, objs)

\* [c, ok]
LoadSiteOutcome(c, siteSlug, objs) ==
    LET first == GetID(c, "sites", siteSlug)
        c1 == IF first.ok THEN c ELSE loadResource(c, "sites", 0, 0, objs)
        site == GetID(c1, "sites", siteSlug)
    IN  IF ~site.ok THEN [c |-> c1, ok |-> FALSE]
        ELSE [c |-> loadResource(loadAll(c1, SiteResources, site.id, site.id, objs),
                                 "vlan_groups", -1, 0, objs),
              ok |-> TRUE]

(***************************************************************************)
(* DeviceReconciler (pkg/reconciler/devices.go)                            *)
(***************************************************************************)

\* models.LinkConfig of a port declaration: the peer and the cable wanted
LinkTo(peerDevice, peerPort, link) ==
    [PeerDevice |-> peerDevice, PeerPort |-> peerPort, CableType |-> link.CableType,
     Color |-> link.Color, Length |-> link.Length, LengthUnit |-> link.LengthUnit]

\* models.DeviceConfig values.  The devices declare no parent device, rack,
\* IP address, VLAN, device bay or module, so reconcileDevice passes over the
\* code for those.
DevSrv ==
    [Name |-> << "s", "r", "v" >>, SiteSlug |-> S_a, RoleSlug |-> R_server,
     DeviceTypeSlug |-> DT_generic,
     Interfaces |-> << [Name |-> << "e", "0" >>,
                        Link |-> LinkTo(<< "p", "p" >>, << "1" >>, LinkRed)] >>,
     FrontPorts |-> <<>>, RearPorts |-> <<>>]
DevPP ==
    [Name |-> << "p", "p" >>, SiteSlug |-> S_a, RoleSlug |-> R_patchpanel,
     DeviceTypeSlug |-> DT_generic,
     Interfaces |-> <<>>,
     FrontPorts |-> << [Name |-> << "1" >>, RearPort |-> << "r", "1" >>, Link |-> NilLink] >>,
     RearPorts |-> << [Name |-> << "r", "1" >>, Link |-> NilLink] >>]
DevLost ==
    [Name |-> << "s", "w" >>, SiteSlug |-> << "c" >>, RoleSlug |-> R_server,
     DeviceTypeSlug |-> DT_generic,
     Interfaces |-> << [Name |-> << "e", "1" >>, Link |-> NilLink] >>,
     FrontPorts |-> <<>>, RearPorts |-> <<>>]

\* What Phase 1 carries from one Apply to the next: no error so far, the
\* remote's objects, the next id, and dr.pendingCables.
Step(ok, objs, nid, queue) == [ok |-> ok, objs |-> objs, nid |-> nid, queue |-> queue]

pendingCable(device, port, sourceType, sourceID) ==
    [sourceDevice |-> device.Name, sourcePort |-> port.Name, sourceType |-> sourceType,
     sourceID |-> sourceID, sourceRole |-> device.RoleSlug, link |-> port.Link]

\* The end of each port loop's body: Apply the port, then queue its link
\* when it has one and the applied object gave an id.
queueCable(out, device, port, sourceType, queue) ==
    IF ~out.ok THEN Step(FALSE, out.objs, out.nid, queue)
    ELSE Step(TRUE, out.objs, out.nid,
              IF port.Link # NilLink /\ GetIDFromObject(out.resp) > 0
              THEN Append(queue, pendingCable(device, port, sourceType,
                                              GetIDFromObject(out.resp)))
              ELSE queue)

applyPort(endpoint, sourceType, deviceID, device, port, payload, tagID, dry, st) ==
    queueCable(ApplyOutcome(endpoint,
                            [device_id |-> GoInt(deviceID), name |-> GoStr(port.Name)],
                            payload, tagID, dry, st.objs, st.nid),
               device, port, sourceType, st.queue)

RECURSIVE interfacesFrom(_, _, _, _, _, _)
interfacesFrom(i, deviceID, device, tagID, dry, st) ==
    IF i > Len(device.Interfaces) \/ ~st.ok THEN st
    ELSE LET iface == device.Interfaces[i]
             payload == [device |-> GoInt(deviceID), name |-> GoStr(iface.Name),
                         enabled |-> GoBool(TRUE)]
         IN  interfacesFrom(i + 1, deviceID, device, tagID, dry,
                            applyPort("interfaces", T_interface, deviceID, device, iface,
                                      payload, tagID, dry, st))

reconcileInterfaces(deviceID, device, c, tagID, dry, st) ==
    IF ~st.ok THEN st
    ELSE IF ~GetID(c, "sites", device.SiteSlug).ok THEN [st EXCEPT !.ok = FALSE]
    ELSE interfacesFrom(1, deviceID, device, tagID, dry, st)

\* a loop body that applies the front port whether or not its rear port was
\* found
frontPortOnUnchecked(rearPorts, deviceID, device, port, tagID, dry, st) ==
    applyPort("front-ports", T_frontport, deviceID, device, port,
              [device |-> GoInt(deviceID), name |-> GoStr(port.Name),
               rear_port |-> GoInt(IF Len(rearPorts) = 0 THEN 0
                                   ELSE GetIDFromObject(rearPorts[1]))],
              tagID, dry, st)

\* one front port once its rear port is looked up: without the rear port
\* the front port is passed over with a warning
frontPortOn(rearPorts, deviceID, device, port, tagID, dry, st) ==
    IF Len(rearPorts) = 0 THEN st
    ELSE applyPort("front-ports", T_frontport, deviceID, device, port,
                   [device |-> GoInt(deviceID), name |-> GoStr(port.Name),
                    rear_port |-> GoInt(GetIDFromObject(rearPorts[1]))],
                   tagID, dry, st)

RECURSIVE frontPortsFrom(_, _, _, _, _, _)
frontPortsFrom(i, deviceID, device, tagID, dry, st) ==
    IF i > Len(device.FrontPorts) \/ ~st.ok THEN st
    ELSE frontPortsFrom(i + 1, deviceID, device, tagID, dry,
                        frontPortOn(FilterObjects(st.objs, "rear-ports",
                                                  [device_id |-> GoInt(deviceID),
                                                   name |-> GoStr(device.FrontPorts[i].RearPort)]),
                                    deviceID, device, device.FrontPorts[i], tagID, dry, st))

reconcileFrontPorts(deviceID, device, tagID, dry, st) ==
    frontPortsFrom(1, deviceID, device, tagID, dry, st)

RECURSIVE rearPortsFrom(_, _, _, _, _, _)
rearPortsFrom(i, deviceID, device, tagID, dry, st) ==
    IF i > Len(device.RearPorts) \/ ~st.ok THEN st
    ELSE LET port == device.RearPorts[i]
             payload == [device |-> GoInt(deviceID), name |-> GoStr(port.Name)]
         IN  rearPortsFrom(i + 1, deviceID, device, tagID, dry,
                           applyPort("rear-ports", T_rearport, deviceID, device, port,
                                     payload, tagID, dry, st))

reconcileRearPorts(deviceID, device, tagID, dry, st) ==
    rearPortsFrom(1, deviceID, device, tagID, dry, st)

S_active == << "a", "c", "t", "i", "v", "e" >>

\* The device bay templates of the remote's device type 1; no other device
\* type has any.
RemoteBayTemplates ==
    << [id |-> 31, device_type |-> 1, name |-> << "b", "1" >>, label |-> << "L" >>],
       [id |-> 32, device_type |-> 1, name |-> << "b", "2" >>, label |-> <<>>] >>

TemplateJSON(t) ==
    Object([id |-> GoFloat(t.id), name |-> GoStr(t.name), label |-> GoStr(t.label),
            device_type |-> Nested(t.device_type)])

\* GET /api/dcim/device-bay-templates/?device_type_id=..
FilterTemplates(deviceTypeID) ==
    LET hits == SelectSeq(RemoteBayTemplates, LAMBDA t : t.device_type = deviceTypeID)
    IN  [i \in 1..Len(hits) |-> TemplateJSON(hits[i])]

\* What the bay and module steps carry: no error so far, the remote's
\* objects, the next id, and the endpoints written to so far, in order.
Trace(ok, objs, nid, writes) == [ok |-> ok, objs |-> objs, nid |-> nid, writes |-> writes]

\* st after the client call that answered out
traced(out, st) ==
    Trace(out.ok, out.objs, out.nid,
          st.writes \o [i \in 1..Len(out.writes) |-> out.writes[i].endpoint])

bayPayload(deviceID, tmpl) ==
    IF Index(tmpl, "label").k = "string" /\ Index(tmpl, "label").v # <<>>
    THEN [device |-> GoInt(deviceID), name |-> Index(tmpl, "name"),
          label |-> Index(tmpl, "label")]
    ELSE [device |-> GoInt(deviceID), name |-> Index(tmpl, "name")]

RECURSIVE baysFrom(_, _, _, _, _, _)
baysFrom(i, templates, existingBayNames, deviceID, dry, st) ==
    IF i > Len(templates) \/ ~st.ok THEN st
    ELSE IF Index(templates[i], "name").k # "string"
            \/ Index(templates[i], "name").v \in existingBayNames
            \/ dry
    THEN baysFrom(i + 1, templates, existingBayNames, deviceID, dry, st)
    ELSE baysFrom(i + 1, templates, existingBayNames, deviceID, dry,
                  traced(Create("device-bays", bayPayload(deviceID, templates[i]), dry,
                                st.objs, st.nid),
                         st))

\* reconcileDeviceBays: the templates of the device type, the bays of the
\* device, and a Create for each template without a bay of its name
reconcileDeviceBays(deviceID, deviceTypeID, dry, st) ==
    LET templates == FilterTemplates(deviceTypeID)
        existingBays == FilterObjects(st.objs, "device-bays", [device_id |-> GoInt(deviceID)])
        existingBayNames == { Index(existingBays[i], "name").v :
                                i \in { j \in 1..Len(existingBays) :
                                          Index(existingBays[j], "name").k = "string" } }
    IN  IF Len(templates) = 0 THEN st
        ELSE baysFrom(1, templates, existingBayNames, deviceID, dry, st)

modulePayload(deviceID, bayID, moduleTypeID, module, tagID) ==
    LET payload == [device |-> GoInt(deviceID), module_bay |-> GoInt(bayID),
                    module_type |-> GoInt(moduleTypeID),
                    status |-> GoStr(IF module.Status = <<>> THEN S_active
                                     ELSE module.Status),
                    serial |-> GoStr(module.Serial)]
    IN  IF tagID > 0
        THEN [k \in DOMAIN payload \cup {"tags"} |->
                 IF k = "tags" THEN GoInts(<< tagID >>) ELSE payload[k]]
        ELSE payload

\* one module of the loop of reconcileModules
moduleOn(deviceID, module, c, tagID, dry, st) ==
    LET moduleType == GetID(c, "module_types", module.ModuleTypeSlug)
        bays == FilterObjects(st.objs, "module-bays",
                              [device_id |-> GoInt(deviceID), name |-> GoStr(module.Name)])
    IN  IF ~moduleType.ok \/ Len(bays) = 0 THEN st
        ELSE traced(ApplyOutcome("modules",
                                 [device_id |-> GoInt(deviceID),
                                  module_bay_id |-> GoInt(GetIDFromObject(bays[1]))],
                                 modulePayload(deviceID, GetIDFromObject(bays[1]),
                                               moduleType.id, module, tagID),
                                 tagID, dry, st.objs, st.nid),
                    st)

RECURSIVE modulesFrom(_, _, _, _, _, _, _)
modulesFrom(i, deviceID, device, c, tagID, dry, st) ==
    IF i > Len(device.Modules) \/ ~st.ok THEN st
    ELSE modulesFrom(i + 1, deviceID, device, c, tagID, dry,
                     moduleOn(deviceID, device.Modules[i], c, tagID, dry, st))

reconcileModules(deviceID, device, c, tagID, dry, st) ==
    modulesFrom(1, deviceID, device, c, tagID, dry, st)

\* the two steps the other way round: the modules, then the bays
modulesThenBays(deviceID, deviceTypeID, device, c, tagID, dry, st) ==
    LET modules == reconcileModules(deviceID, device, c, tagID, dry, st)
        out == IF ~modules.ok THEN modules
               ELSE reconcileDeviceBays(deviceID, deviceTypeID, dry, modules)
    IN  [ok |-> out.ok, objs |-> out.objs, nid |-> out.nid, writes |-> out.writes,
         mid |-> st.objs]

\* The end of reconcileDevice: the device's bays, then its modules; an
\* error of the bays returns before the modules.  mid is the remote as
\* reconcileModules found it.
baysThenModules(deviceID, deviceTypeID, device, c, tagID, dry, st) ==
    LET bays == reconcileDeviceBays(deviceID, deviceTypeID, dry, st)
        out == IF ~bays.ok THEN bays
               ELSE reconcileModules(deviceID, device, c, tagID, dry, bays)
    IN  [ok |-> out.ok, objs |-> out.objs, nid |-> out.nid, writes |-> out.writes,
         mid |-> bays.objs]

\* reconcileDevice once the device is applied (out): its interfaces, then
\* its front ports, then its rear ports, in the order of the code.  Each of
\* the three passes an error of the one before it on.
reconcileComponents(out, device, c, tagID, dry, queue) ==
    IF ~out.ok \/ GetIDFromObject(out.resp) = 0 THEN Step(out.ok, out.objs, out.nid, queue)
    ELSE
    LET deviceID == GetIDFromObject(out.resp)
        ifaces == reconcileInterfaces(deviceID, device, c, tagID, dry,
                                      Step(TRUE, out.objs, out.nid, queue))
        fronts == reconcileFrontPorts(deviceID, device, tagID, dry, ifaces)
    IN  reconcileRearPorts(deviceID, device, tagID, dry, fronts)

\* reconcileDevice's Apply of the device under (name, site_id)
applyDevice(device, siteID, roleID, deviceTypeID, tagID, dry, objs, nid) ==
    ApplyOutcome("devices",
                 [name |-> GoStr(device.Name), site_id |-> GoInt(siteID)],
                 [name |-> GoStr(device.Name), site |-> GoInt(siteID),
                  role |-> GoInt(roleID),
                  device_type |-> GoInt(deviceTypeID),
                  status |-> GoStr(S_active)],
                 tagID, dry, objs, nid)

\* reconcileDevice: the three cache lookups, the device's Apply, and then
\* the device's components.
reconcileDevice(device, c, tagID, dry, objs, nid, queue) ==
    LET site == GetID(c, "sites", device.SiteSlug)
        role == GetID(c, "roles", device.RoleSlug)
        deviceType == GetID(c, "device_types", device.DeviceTypeSlug)
    IN  IF ~site.ok \/ ~role.ok \/ ~deviceType.ok THEN Step(FALSE, objs, nid, queue)
        ELSE reconcileComponents(
                 applyDevice(device, site.id, role.id, deviceType.id, tagID, dry, objs, nid),
                 device, c, tagID, dry, queue)

\* the IP family the remote reports for an address
FamilyOf(address) == IF \E i \in 1..Len(address) : address[i] = ":" THEN 6 ELSE 4

\* /api/ipam/ip-addresses/{id}/ as the remote answers it
AddressJSON(o) ==
    Object([id |-> GoFloat(o.id), address |-> GoStr(o.name),
            family |-> GoMap([value |-> GoFloat(FamilyOf(o.name)),
                              label |-> GoStr(<< "I", "P", "v" >> \o Itoa(FamilyOf(o.name)))])])

\* setPrimaryIP's choice of the device field by ipObj["family"]
primaryField(ipObj) ==
    LET fam == Index(ipObj, "family")
        family == IF fam.k = "map"
                  THEN IF Field(fam.v, "value").k = "float64" THEN Field(fam.v, "value").v
                       ELSE 4
                  ELSE IF fam.k = "float64" THEN fam.v ELSE 4
    IN  IF family = 6 THEN "primary_ip6" ELSE "primary_ip4"

\* setPrimaryIP: the address is fetched, then the device is updated.
\* [ok, reads, writes, objs, nid]
setPrimaryIP(deviceID, ipID, dry, objs, nid) ==
    LET got == Get("ip-addresses", ipID, dry, objs, nid)
    IN  IF ~got.ok
        THEN [ok |-> FALSE, reads |-> 1, writes |-> <<>>, objs |-> objs, nid |-> nid]
        ELSE LET ipObj == AddressJSON(CHOOSE o \in ObjectAt(objs, "ip-addresses", ipID) : TRUE)
                 upd == Update("devices", deviceID,
                               IF primaryField(ipObj) = "primary_ip6"
                               THEN [primary_ip6 |-> GoInt(ipID)]
                               ELSE [primary_ip4 |-> GoInt(ipID)],
                               dry, objs, nid)
             IN  [ok |-> upd.ok, reads |-> 1, writes |-> upd.writes, objs |-> upd.objs,
                  nid |-> upd.nid]

\* device["role"]["slug"] of findPort's peer device, "" when it is not there
peerRoleOf(device) ==
    IF Index(device, "role").k # "map" THEN <<>>
    ELSE IF Field(Index(device, "role").v, "slug").k # "string" THEN <<>>
    ELSE Field(Index(device, "role").v, "slug").v

\* findPort's choice of the port type by the two roles
portKind(sourceRole, peerRole) ==
    IF sourceRole = R_patchpanel /\ peerRole = R_patchpanel
    THEN [endpoint |-> "rear-ports", objectType |-> T_rearport]
    ELSE IF peerRole = R_patchpanel
    THEN [endpoint |-> "front-ports", objectType |-> T_frontport]
    ELSE [endpoint |-> "interfaces", objectType |-> T_interface]

foundPort(ports, deviceName, portName, objectType) ==
    IF Len(ports) = 0 THEN NilEnd
    ELSE [DeviceName |-> deviceName, PortName |-> portName, ObjectType |-> objectType,
          ObjectID |-> GetIDFromObject(ports[1])]

portOfDevice(objs, device, kind, deviceName, portName) ==
    IF GetIDFromObject(device) = 0 THEN NilEnd
    ELSE foundPort(FilterObjects(objs, kind.endpoint,
                                 [device_id |-> GoInt(GetIDFromObject(device)),
                                  name |-> GoStr(portName)]),
                   deviceName, portName, kind.objectType)

firstDevice(objs, devices, deviceName, portName, sourceRole) ==
    IF Len(devices) = 0 THEN NilEnd
    ELSE portOfDevice(objs, devices[1], portKind(sourceRole, peerRoleOf(devices[1])),
                      deviceName, portName)

\* findPort: the peer's port as a CableEndpoint, NilEnd when it is not found
findPort(objs, deviceName, portName, sourceRole) ==
    firstDevice(objs, FilterObjects(objs, "devices", [name |-> GoStr(deviceName)]),
                deviceName, portName, sourceRole)

\* portLookup[sourceDevice::sourcePort]: the last queued entry under the key
portLookup(queue, pc) ==
    LET same == SelectSeq(queue, LAMBDA q : /\ q.sourceDevice = pc.sourceDevice
                                            /\ q.sourcePort = pc.sourcePort)
        q == same[Len(same)]
    IN  [DeviceName |-> q.sourceDevice, PortName |-> q.sourcePort,
         ObjectType |-> q.sourceType, ObjectID |-> q.sourceID]

cableDone(out, ct) ==
    [ok |-> out.ok, pairs |-> out.pairs, cs |-> out.cs, nid |-> out.nid,
     calls |-> ct.calls + 1]

\* one entry of the queue once its peer is looked up: a peer not found is
\* passed over, a peer found is handed to ReconcileCable with the source
cableTo(peerInfo, source, link, env, ct) ==
    IF peerInfo = NilEnd THEN ct
    ELSE cableDone(ReconcileCableOutcome(source, peerInfo, link, ct.pairs, ct.cs, ct.nid,
                                         env.shape, env.dry, "none"), ct)

RECURSIVE pendingCablesFrom(_, _, _, _, _)
\* reconcilePendingCables' second loop from entry i on; ct is
\* [ok, pairs, cs, nid, calls]: no error, the processed pairs, the remote's
\* cables, the next cable id and the ReconcileCable calls made.
pendingCablesFrom(i, queue, objs, env, ct) ==
    IF i > Len(queue) \/ ~ct.ok THEN ct
    ELSE pendingCablesFrom(i + 1, queue, objs, env,
                           cableTo(findPort(objs, queue[i].link.PeerDevice,
                                            queue[i].link.PeerPort, queue[i].sourceRole),
                                   portLookup(queue, queue[i]), queue[i].link, env, ct))

reconcilePendingCables(queue, objs, env, pairs, cs, nid) ==
    pendingCablesFrom(1, queue, objs, env,
                      [ok |-> TRUE, pairs |-> pairs, cs |-> cs, nid |-> nid, calls |-> 0])

\* no ReconcileDevices call yet
NoRun == [phase |-> "idle", devices |-> <<>>, i |-> 0, calls |-> 0]

\* runSync has not been called
NoSync == [pc |-> "idle", racks |-> <<>>, devices |-> <<>>]

\* cm.mu unlocked: no goroutine holds it locked (w) or read-locked (r)
NoLock == [w |-> "", r |-> {}]

\* no goroutine uses the cache besides the caller of the reconcilers
NoCalls == << >>

\* ReconcileDevices' loop control after reconcileDevice returned for device i
\* of n: the error returns, the next device is taken, or Phase 2 begins.
afterDeviceSkipsError(ok, i, n) == IF i < n THEN "devices" ELSE "cables"

afterDevice(ok, i, n) ==
    IF ~ok THEN "failed" ELSE IF i < n THEN "devices" ELSE "cables"

(***************************************************************************)
(* Cable reconciliation as a state machine                                 *)
(***************************************************************************)

\* Bound on the ids the remote hands out to cables.
MaxCableID == 2

\* The remote before the run: no cable, or one cable (id 1) between two
\* ports: one this tool made (tagged), or one made by hand (untagged, and
\* drawn the other way round).
Wiring == { << TermOf(EndSrv), TermOf(EndPP) >>, << TermOf(EndPP), TermOf(EndSw) >>,
            << TermOf(EndSw), TermOf(EndSrv) >> }

InitCables ==
    {{}} \cup
    { {[id |-> 1, a |-> w[1], b |-> w[2], type |-> << "c", "a", "t", "6" >>,
        color |-> << "0", "0", "0", "0", "f", "f" >>, length |-> 0,
        length_unit |-> <<>>, tagged |-> TRUE]} : w \in Wiring } \cup
    { {[id |-> 1, a |-> w[2], b |-> w[1], type |-> <<>>,
        color |-> << "f", "f", "0", "0", "0", "0" >>, length |-> 5,
        length_unit |-> << "f", "t" >>, tagged |-> FALSE]} : w \in Wiring }

\* The endpoint arguments of the calls: every ordered pair of distinct
\* ports, one port paired with itself, and a nil endpoint on either side.
Calls ==
    ({ << a, b >> : a \in Endpoints, b \in Endpoints }
        \ { << EndSrv, EndSrv >>, << EndPP, EndPP >> })
    \cup { << NilEnd, EndSw >>, << EndSw, NilEnd >> }

Between(cs, pair) == {c \in cs : {c.a, c.b} = pair}

\* the attributes the link asks for are the cable's
Carries(c, link) ==
    /\ link.CableType # <<>> => c.type = link.CableType
    /\ link.Color # <<>> => c.color = normalizeColor(link.Color)
    /\ link.Length > 0 => c.length = link.Length
    /\ link.LengthUnit # <<>> => c.length_unit = link.LengthUnit

\* cables of cs on a port of the pair that do not join the pair's two ports
Stray(cs, pair) ==
    {c \in cs : ({c.a, c.b} \cap pair # {}) /\ {c.a, c.b} # pair}

NoCall == [op |-> "none", pair |-> {}, link |-> NilLink, fault |-> "none",
           ok |-> TRUE, passed |-> FALSE, seen |-> FALSE, flipped |-> FALSE,
           had |-> FALSE,
           reads |-> 0, writes |-> <<>>, stray |-> {}]

InitCable ==
    /\ cables \in InitCables
    /\ nextCableID = 2
    /\ respShape \in {"flat", "arrays"}
    /\ dryRun \in BOOLEAN
    /\ processedPairs = {}
    /\ touched = {}
    /\ last = NoCall
    /\ objects = {}
    /\ nextObjectID = 1
    /\ managedTagID = Ensure(dryRun, RemoteTags, Nil)
    /\ cache = << >>
    /\ siteLoads = {}
    /\ pendingCables = <<>>
    /\ run = NoRun
    /\ sync = NoSync
    /\ mu = NoLock
    /\ goroutines = NoCalls

ReconcileCable(aEnd, bEnd, link, fault) ==
    \E out \in {ReconcileCableOutcome(aEnd, bEnd, link, processedPairs, cables, nextCableID,
                                     respShape, dryRun, fault)} :
    LET pair == {TermOf(aEnd), TermOf(bEnd)}
    IN  /\ out.nid <= MaxCableID + 1
        /\ cables' = out.cs
        /\ nextCableID' = out.nid
        /\ processedPairs' = out.pairs
        /\ touched' = IF out.passed THEN touched \cup {<< TermOf(aEnd), TermOf(bEnd) >>}
                       ELSE touched
        /\ last' = [op |-> "ReconcileCable", pair |-> pair, link |-> link,
                    fault |-> fault, ok |-> out.ok, passed |-> out.passed,
                    seen |-> \E t \in touched : {t[1], t[2]} = pair,
                    flipped |-> << TermOf(bEnd), TermOf(aEnd) >> \in touched
                                /\ << TermOf(aEnd), TermOf(bEnd) >> \notin touched,
                    had |-> /\ Between(cables, pair) # {}
                            /\ \A c \in Between(cables, pair) : Carries(c, link),
                    reads |-> out.reads, writes |-> out.writes,
                    stray |-> {c.id : c \in Stray(cables, pair)}]
        /\ UNCHANGED << respShape, dryRun, objects, nextObjectID, managedTagID, cache,
                        siteLoads, pendingCables, run, sync, mu,
                    goroutines >>

\* CableReconciler.Reset, called between reconciliation runs
Reset ==
    /\ processedPairs' = {}
    /\ touched' = {}
    /\ UNCHANGED << cables, nextCableID, respShape, dryRun, last, objects, nextObjectID,
                    managedTagID, cache, siteLoads, pendingCables, run, sync, mu,
                    goroutines >>

\* The calls made: each pair of endpoints with each link while the remote
\* answers, and one link under each failure of the remote.
Inputs ==
    { << c[1], c[2], link, "none" >> : c \in Calls, link \in Links }
    \cup { << EndSrv, EndSw, LinkRed, fault >> : fault \in Faults }

NextCable ==
    \/ \E in \in Inputs : ReconcileCable(in[1], in[2], in[3], in[4])
    \/ Reset

SpecCable == InitCable /\ [][NextCable]_vars

(***************************************************************************)
(* The client as a state machine                                           *)
(***************************************************************************)

\* Bound on the ids the remote hands out to objects.
MaxObjectID == 3

\* The remote before the run: no object, or one object (id 1).
InitObjects ==
    {{}} \cup
    { {[RemoteObject("vlans", 1, N_mgmt) EXCEPT !.description = d, !.site = 1, !.tags = t]} :
      d \in {D_old, D_new}, t \in {{}, {GitopsTag.id}} }

\* the desired payloads Apply is called with, each looked up by its name
Payloads ==
    { [name |-> GoStr(n), description |-> GoStr(d), site |-> GoInt(1)] :
      n \in {N_mgmt, N_idrac}, d \in {D_old, D_new} }

LookupOf(payload) == [name |-> payload["name"]]

\* an object of objs answers the lookup and holds what the payload asks for
Holds(objs, payload) ==
    \E o \in objs : /\ GoStr(o.name) = payload["name"]
                    /\ GoStr(o.description) = payload["description"]
                    /\ o.site = payload["site"].v

NoClientCall == [op |-> "none", input |-> NoBody, id |-> 0, ok |-> TRUE, reads |-> 0,
                 writes |-> <<>>, intercepted |-> FALSE, synthetic |-> Nil,
                 changed |-> FALSE, due |-> FALSE, again |-> FALSE,
                 before |-> 0, wasDue |-> FALSE]

InitClient ==
    /\ objects \in InitObjects
    /\ nextObjectID = 2
    /\ dryRun \in BOOLEAN
    /\ managedTagID = Ensure(dryRun, RemoteTags, Nil)
    /\ last = NoClientCall
    /\ cables = {}
    /\ nextCableID = 1
    /\ respShape = "flat"
    /\ processedPairs = {}
    /\ touched = {}
    /\ cache = << >>
    /\ siteLoads = {}
    /\ pendingCables = <<>>
    /\ run = NoRun
    /\ sync = NoSync
    /\ mu = NoLock
    /\ goroutines = NoCalls

\* the record of one client call; again says that the call repeats the Apply
\* call before it, before and wasDue what that call sent and found
Called(op, input, id, out) ==
    [op |-> op, input |-> input, id |-> id, ok |-> out.ok, reads |-> out.reads,
     writes |-> out.writes, intercepted |-> out.intercepted, synthetic |-> out.synthetic,
     changed |-> out.objs # objects,
     due |-> op = "Apply" /\ ~Holds(objects, input),
     again |-> op = "Apply" /\ last.op = "Apply" /\ last.input = input,
     before |-> Len(last.writes), wasDue |-> last.due]

ClientStep(op, input, id, out) ==
    /\ out.nid <= MaxObjectID + 1
    /\ objects' = out.objs
    /\ nextObjectID' = out.nid
    /\ last' = Called(op, input, id, out)
    /\ UNCHANGED << dryRun, managedTagID, cables, nextCableID, respShape, processedPairs,
                    touched, cache, siteLoads, pendingCables, run, sync, mu,
                    goroutines >>

Apply(payload) ==
    \E out \in {ApplyOutcome("vlans", LookupOf(payload), payload, managedTagID, dryRun,
                             objects, nextObjectID)} :
        ClientStep("Apply", payload, 0, out)

ClientCreate(payload) ==
    \E out \in {Create("vlans", payload, dryRun, objects, nextObjectID)} :
        ClientStep("Create", payload, 0, out)

ClientUpdate(id, payload) ==
    \E out \in {Update("vlans", id, payload, dryRun, objects, nextObjectID)} :
        ClientStep("Update", payload, id, out)

ClientDelete(id) ==
    \E out \in {Delete("vlans", id, dryRun, objects, nextObjectID)} :
        ClientStep("Delete", NoBody, id, out)

ClientGet(id) ==
    \E out \in {Get("vlans", id, dryRun, objects, nextObjectID)} :
        ClientStep("Get", NoBody, id, out)

NextClient ==
    \/ \E payload \in Payloads : Apply(payload)
    \/ \E payload \in Payloads : ClientCreate(payload)
    \/ \E id \in 1..MaxObjectID, payload \in Payloads : ClientUpdate(id, payload)
    \/ \E id \in 1..MaxObjectID : ClientDelete(id)
    \/ \E id \in 1..MaxObjectID : ClientGet(id)

SpecClient == InitClient /\ [][NextClient]_vars

(***************************************************************************)
(* The cache as a state machine                                            *)
(***************************************************************************)

SiteSlugs == {S_a, S_b, << "c" >>}

InitCache ==
    /\ cache = << >>
    /\ siteLoads = {}
    /\ objects \in SUBSET RemoteVlans
    /\ nextObjectID = 76
    /\ dryRun \in BOOLEAN
    /\ managedTagID = Ensure(dryRun, RemoteTags, Nil)
    /\ last = [op |-> "none", ok |-> TRUE]
    /\ cables = {}
    /\ nextCableID = 1
    /\ respShape = "flat"
    /\ processedPairs = {}
    /\ touched = {}
    /\ pendingCables = <<>>
    /\ run = NoRun
    /\ sync = NoSync
    /\ mu = NoLock
    /\ goroutines = NoCalls

CacheFrame ==
    UNCHANGED << objects, nextObjectID, dryRun, managedTagID, cables, nextCableID, respShape,
                 processedPairs, touched, pendingCables, run, sync, mu,
                    goroutines >>

LoadGlobal ==
    /\ cache' = loadAll(cache, GlobalResources, 0, 0, objects)
    /\ last' = [op |-> "LoadGlobal", ok |-> TRUE]
    /\ UNCHANGED siteLoads
    /\ CacheFrame

LoadSite(siteSlug) ==
    \E out \in {LoadSiteOutcome(cache, siteSlug, objects)} :
        /\ cache' = out.c
        /\ siteLoads' = siteLoads \cup {siteSlug}
        /\ last' = [op |-> "LoadSite", ok |-> out.ok]
        /\ CacheFrame

Invalidate(resource) ==
    /\ cache' = [r \in DOMAIN cache \ {resource} |-> cache[r]]
    /\ siteLoads' = {}
    /\ last' = [op |-> "Invalidate", ok |-> TRUE]
    /\ CacheFrame

InvalidateAll ==
    /\ cache' = << >>
    /\ siteLoads' = {}
    /\ last' = [op |-> "InvalidateAll", ok |-> TRUE]
    /\ CacheFrame

NextCache ==
    \/ LoadGlobal
    \/ \E siteSlug \in SiteSlugs : LoadSite(siteSlug)
    \/ \E resource \in GlobalResources \cup SiteResources : Invalidate(resource)
    \/ InvalidateAll

SpecCache == InitCache /\ [][NextCache]_vars

(***************************************************************************)
(* GetSiteID on its own                                                    *)
(***************************************************************************)

\* The remote's site-scoped objects: the VLAN idrac at site 1 and at site 2,
\* the VLAN group mgmt of site 1, and the VLAN group mgmt of no site.
ScopedObjects ==
    { [RemoteObject("vlans", 75, N_idrac) EXCEPT !.site = 1],
      [RemoteObject("vlans", 74, N_idrac) EXCEPT !.site = 2],
      [RemoteObject("vlan-groups", 21, N_mgmt) EXCEPT !.site = 1],
      RemoteObject("vlan-groups", 20, N_mgmt) }

\* the cache resource LoadSite loads from the endpoint
ResourceOf(endpoint) == IF endpoint = "vlan-groups" THEN "vlan_groups" ELSE endpoint

RECURSIVE storeObjects(_, _)
\* The keys loadResource stores for objects by their names: LoadSite loads
\* the objects of a site with the site's id, and the VLAN groups of no site
\* with siteID 0.
storeObjects(c, objs) ==
    IF objs = {} THEN c
    ELSE LET o == CHOOSE x \in objs : TRUE
         IN  storeObjects(storeKey(c, ResourceOf(o.endpoint), o.site, o.name, o.id),
                          objs \ {o})

InitScopes ==
    /\ objects \in SUBSET ScopedObjects
    /\ cache = storeObjects([r \in {"vlans", "vlan_groups"} |-> << >>], objects)
    /\ siteLoads = {}
    /\ nextObjectID = 76
    /\ dryRun = FALSE
    /\ managedTagID = Ensure(dryRun, RemoteTags, Nil)
    /\ last = [op |-> "none", resource |-> "", siteID |-> 0, identifier |-> <<>>,
               id |-> 0, ok |-> FALSE]
    /\ cables = {}
    /\ nextCableID = 1
    /\ respShape = "flat"
    /\ processedPairs = {}
    /\ touched = {}
    /\ pendingCables = <<>>
    /\ run = NoRun
    /\ sync = NoSync
    /\ mu = NoLock
    /\ goroutines = NoCalls

GetSiteIDCall(resource, siteID, identifier) ==
    /\ \E got \in {GetSiteID(cache, resource, siteID, identifier)} :
           last' = [op |-> "GetSiteID", resource |-> resource, siteID |-> siteID,
                    identifier |-> identifier, id |-> got.id, ok |-> got.ok]
    /\ UNCHANGED cache
    /\ CacheFrame
    /\ UNCHANGED siteLoads

NextScopes ==
    \E resource \in {"vlans", "vlan_groups"}, siteID \in {1, 2}, identifier \in {N_idrac, N_mgmt} :
        GetSiteIDCall(resource, siteID, identifier)

SpecScopes == InitScopes /\ [][NextScopes]_vars

(***************************************************************************)
(* The cache under concurrent calls                                        *)
(***************************************************************************)

\* The goroutines that call the cache.
Goroutines == {"g1", "g2"}

\* A method of CacheManager that touches cm.cache, with its arguments: one
\* critical section.
Section(method, resource, identifier, filter, siteID) ==
    [method |-> method, resource |-> resource, identifier |-> identifier,
     filter |-> filter, siteID |-> siteID]
NoSection == Section("", "", <<>>, 0, 0)

\* the mutex call each method opens with; every one of them defers the
\* matching unlock
lockOfReadOnly(method) == "RLock"

\* loadResource under the read lock, like the readers
lockOfLoadShared(method) ==
    IF method \in {"Invalidate", "InvalidateAll"} THEN "Lock" ELSE "RLock"

lockOf(method) ==
    IF method \in {"loadResource", "Invalidate", "InvalidateAll"} THEN "Lock" ELSE "RLock"

\* the method assigns to cm.cache or to one of its maps, or deletes from it
WritesCache(method) == method \in {"loadResource", "Invalidate", "InvalidateAll"}

\* The calls the goroutines make.  GetGlobalID is a call of GetID.
CacheCalls ==
    { [call |-> "LoadGlobal", sec |-> NoSection],
      [call |-> "LoadSite", sec |-> Section("GetID", "sites", S_a, 0, 0)],
      [call |-> "GetID", sec |-> Section("GetID", "sites", S_a, 0, 0)],
      [call |-> "GetGlobalID", sec |-> Section("GetID", "roles", R_server, 0, 0)],
      [call |-> "GetSiteID", sec |-> Section("GetSiteID", "vlans", N_idrac, 0, 1)],
      [call |-> "Invalidate", sec |-> Section("Invalidate", "sites", <<>>, 0, 0)],
      [call |-> "InvalidateAll", sec |-> Section("InvalidateAll", "", <<>>, 0, 0)],
      [call |-> "Resources", sec |-> Section("Resources", "", <<>>, 0, 0)],
      [call |-> "Size", sec |-> Section("Size", "sites", <<>>, 0, 0)] }

\* A goroutine: the call it is in, its position (idle, before the mutex
\* call of a section, in the section, before the deferred unlock), the
\* section, and for the two loaders the resources the loop has left, the
\* stage of LoadSite and what its GetID answered.
Idle == [call |-> "none", pc |-> "idle", sec |-> NoSection, arg |-> NoSection,
           left |-> {}, stage |-> "", found |-> FALSE, id |-> 0]

\* the sections the goroutine may enter next (a loop over a Go map takes
\* its keys in any order)
NextSections(gr) ==
    IF gr.call = "LoadGlobal"
    THEN { Section("loadResource", r, <<>>, 0, 0) : r \in gr.left }
    ELSE IF gr.call = "LoadSite"
    THEN CASE gr.stage \in {"first", "second"} -> {gr.arg}
           [] gr.stage = "sites" -> {Section("loadResource", "sites", <<>>, 0, 0)}
           [] gr.stage = "site" ->
                  { Section("loadResource", r, <<>>, gr.id, gr.id) : r \in gr.left }
           [] OTHER -> {Section("loadResource", "vlan_groups", <<>>, -1, 0)}
    ELSE {gr.arg}

\* the goroutine once the section it was in has returned
AfterSection(gr) ==
    LET next == [gr EXCEPT !.pc = "lock", !.sec = NoSection]
        left == gr.left \ {gr.sec.resource}
    IN  IF gr.call = "LoadGlobal"
        THEN IF left = {} THEN Idle ELSE [next EXCEPT !.left = left]
        ELSE IF gr.call = "LoadSite"
        THEN CASE gr.stage = "first" /\ ~gr.found -> [next EXCEPT !.stage = "sites"]
               [] gr.stage = "sites" -> [next EXCEPT !.stage = "second"]
               [] gr.stage = "second" /\ ~gr.found -> Idle
               [] gr.stage \in {"first", "second"} /\ gr.found ->
                      [next EXCEPT !.stage = "site", !.left = SiteResources]
               [] gr.stage = "site" ->
                      IF left = {} THEN [next EXCEPT !.stage = "groups", !.left = {}]
                      ELSE [next EXCEPT !.left = left]
               [] OTHER -> Idle
        ELSE Idle

InitMutex ==
    /\ cache = << >>
    /\ siteLoads = {}
    /\ objects = RemoteVlans
    /\ nextObjectID = 76
    /\ dryRun = FALSE
    /\ managedTagID = Ensure(dryRun, RemoteTags, Nil)
    /\ last = [op |-> "none", ok |-> TRUE]
    /\ cables = {}
    /\ nextCableID = 1
    /\ respShape = "flat"
    /\ processedPairs = {}
    /\ touched = {}
    /\ pendingCables = <<>>
    /\ run = NoRun
    /\ sync = NoSync
    /\ mu = NoLock
    /\ goroutines = [g \in Goroutines |-> Idle]

MutexFrame ==
    UNCHANGED << objects, nextObjectID, dryRun, managedTagID, cables, nextCableID, respShape,
                 processedPairs, touched, pendingCables, run, sync, siteLoads, last >>

\* the goroutine calls a method of the cache
Call(g, c) ==
    /\ goroutines[g].pc = "idle"
    /\ goroutines' = [goroutines EXCEPT
                         ![g] = [Idle EXCEPT !.call = c.call, !.pc = "lock", !.arg = c.sec,
                                               !.left = IF c.call = "LoadGlobal"
                                                        THEN GlobalResources ELSE {},
                                               !.stage = IF c.call = "LoadSite"
                                                         THEN "first" ELSE ""]]
    /\ UNCHANGED << cache, mu >>
    /\ MutexFrame

\* cm.mu.Lock() or cm.mu.RLock() at the head of a method returns
Acquire(g) ==
    /\ goroutines[g].pc = "lock"
    /\ \E sec \in NextSections(goroutines[g]) :
        /\ mu.w = ""
        /\ lockOf(sec.method) = "Lock" => mu.r = {}
        /\ mu' = IF lockOf(sec.method) = "Lock" THEN [mu EXCEPT !.w = g]
                 ELSE [mu EXCEPT !.r = mu.r \cup {g}]
        /\ goroutines' = [goroutines EXCEPT ![g].pc = "held", ![g].sec = sec]
    /\ UNCHANGED cache
    /\ MutexFrame

\* the body of the method: its reads of cm.cache and its writes to it
Access(g) ==
    /\ goroutines[g].pc = "held"
    /\ LET sec == goroutines[g].sec
           got == IF sec.method = "GetID" THEN GetID(cache, sec.resource, sec.identifier)
                  ELSE IF sec.method = "GetSiteID"
                  THEN GetSiteID(cache, sec.resource, sec.siteID, sec.identifier)
                  ELSE [id |-> 0, ok |-> FALSE]
       IN  /\ cache' =
                  CASE sec.method = "loadResource" ->
                           loadResource(cache, sec.resource, sec.filter, sec.siteID, objects)
                    [] sec.method = "Invalidate" ->
                           [r \in DOMAIN cache \ {sec.resource} |-> cache[r]]
                    [] sec.method = "InvalidateAll" -> << >>
                    [] OTHER -> cache
           /\ goroutines' = [goroutines EXCEPT ![g].pc = "unlock", ![g].found = got.ok,
                                                ![g].id = got.id]
    /\ UNCHANGED mu
    /\ MutexFrame

\* the deferred cm.mu.Unlock() or cm.mu.RUnlock() runs and the method returns
Release(g) ==
    /\ goroutines[g].pc = "unlock"
    /\ mu' = [w |-> IF mu.w = g THEN "" ELSE mu.w, r |-> mu.r \ {g}]
    /\ goroutines' = [goroutines EXCEPT ![g] = AfterSection(goroutines[g])]
    /\ UNCHANGED cache
    /\ MutexFrame

NextMutex ==
    \E g \in Goroutines :
        \/ \E c \in CacheCalls : Call(g, c)
        \/ Acquire(g)
        \/ Access(g)
        \/ Release(g)

SpecMutex == InitMutex /\ [][NextMutex]_vars

(***************************************************************************)
(* loadResource statement by statement beside a reader                     *)
(***************************************************************************)

\* loadResource's first statements under the mutex: the map of the resource
\* is made when there is none
ensureMap(c, resource) ==
    IF resource \in DOMAIN c THEN c
    ELSE [r \in DOMAIN c \cup {resource} |-> IF r = resource THEN << >> ELSE c[r]]

\* The calls the goroutines make: the load of the sites, the load of the
\* VLANs of site 2, and the lookups of what they index.
LoadCalls ==
    { Section("loadResource", "sites", <<>>, 0, 0),
      Section("loadResource", "vlans", <<>>, 2, 2),
      Section("GetID", "sites", S_b, 0, 0),
      Section("GetSiteID", "vlans", N_mgmt, 0, 2) }

\* A goroutine: its call, its position (idle, before the mutex call, before
\* Filter, in the loop, before the deferred unlock), the objects Filter
\* answered with and the number of them the loop has indexed.
Resting1 == [sec |-> NoSection, pc |-> "idle", objs |-> <<>>, i |-> 0]

\* the goroutine is inside loadResource's loop for the resource, with some
\* of the objects indexed and others to come
Partway(gr, resource) ==
    /\ gr.sec.method = "loadResource" /\ gr.sec.resource = resource
    /\ gr.pc = "loop" /\ 0 < gr.i /\ gr.i < Len(gr.objs)

InitLoad ==
    /\ cache = << >>
    /\ siteLoads = {}
    /\ objects = RemoteVlans
    /\ nextObjectID = 76
    /\ dryRun = FALSE
    /\ managedTagID = Ensure(dryRun, RemoteTags, Nil)
    /\ last = [op |-> "none", resource |-> "", ok |-> FALSE, id |-> 0, partial |-> FALSE]
    /\ cables = {}
    /\ nextCableID = 1
    /\ respShape = "flat"
    /\ processedPairs = {}
    /\ touched = {}
    /\ pendingCables = <<>>
    /\ run = NoRun
    /\ sync = NoSync
    /\ mu = NoLock
    /\ goroutines = [g \in Goroutines |-> Resting1]

LoadFrame ==
    UNCHANGED << objects, nextObjectID, dryRun, managedTagID, cables, nextCableID, respShape,
                 processedPairs, touched, pendingCables, run, sync, siteLoads >>

\* the goroutine calls loadResource, GetID or GetSiteID
BeginCall(g, sec) ==
    /\ goroutines[g].pc = "idle"
    /\ goroutines' = [goroutines EXCEPT ![g] = [Resting1 EXCEPT !.sec = sec, !.pc = "lock"]]
    /\ UNCHANGED << cache, mu, last >>
    /\ LoadFrame

\* cm.mu.Lock() or cm.mu.RLock() at the head of the method returns
TakeMutex(g) ==
    /\ goroutines[g].pc = "lock"
    /\ mu.w = ""
    /\ lockOf(goroutines[g].sec.method) = "Lock" => mu.r = {}
    /\ mu' = IF lockOf(goroutines[g].sec.method) = "Lock" THEN [mu EXCEPT !.w = g]
             ELSE [mu EXCEPT !.r = mu.r \cup {g}]
    /\ goroutines' = [goroutines EXCEPT ![g].pc = "held"]
    /\ UNCHANGED << cache, last >>
    /\ LoadFrame

\* loadResource makes the map of the resource and asks the remote
FetchObjects(g) ==
    /\ goroutines[g].pc = "held" /\ goroutines[g].sec.method = "loadResource"
    /\ cache' = ensureMap(cache, goroutines[g].sec.resource)
    /\ goroutines' = [goroutines EXCEPT
                         ![g].pc = "loop",
                         ![g].objs = FilterResource(goroutines[g].sec.resource,
                                                    goroutines[g].sec.filter, objects)]
    /\ UNCHANGED << mu, last >>
    /\ LoadFrame

\* one turn of loadResource's loop, or its end
IndexObject(g) ==
    /\ goroutines[g].pc = "loop"
    /\ IF goroutines[g].i < Len(goroutines[g].objs)
       THEN /\ cache' = loadObject(cache, goroutines[g].sec.resource,
                                   goroutines[g].sec.siteID,
                                   goroutines[g].objs[goroutines[g].i + 1])
            /\ goroutines' = [goroutines EXCEPT ![g].i = @ + 1]
       ELSE /\ cache' = cache
            /\ goroutines' = [goroutines EXCEPT ![g].pc = "unlock"]
    /\ UNCHANGED << mu, last >>
    /\ LoadFrame

\* the body of GetID or GetSiteID: the lookup in cm.cache
ReadCache(g) ==
    /\ goroutines[g].pc = "held" /\ goroutines[g].sec.method # "loadResource"
    /\ \E got \in {IF goroutines[g].sec.method = "GetID"
                   THEN GetID(cache, goroutines[g].sec.resource, goroutines[g].sec.identifier)
                   ELSE GetSiteID(cache, goroutines[g].sec.resource, goroutines[g].sec.siteID,
                                  goroutines[g].sec.identifier)} :
           last' = [op |-> goroutines[g].sec.method, resource |-> goroutines[g].sec.resource,
                    ok |-> got.ok, id |-> got.id,
                    partial |-> \E h \in Goroutines \ {g} :
                                    Partway(goroutines[h], goroutines[g].sec.resource)]
    /\ goroutines' = [goroutines EXCEPT ![g].pc = "unlock"]
    /\ UNCHANGED << cache, mu >>
    /\ LoadFrame

\* the deferred cm.mu.Unlock() or cm.mu.RUnlock() runs and the method returns
DropMutex(g) ==
    /\ goroutines[g].pc = "unlock"
    /\ mu' = [w |-> IF mu.w = g THEN "" ELSE mu.w, r |-> mu.r \ {g}]
    /\ goroutines' = [goroutines EXCEPT ![g] = Resting1]
    /\ UNCHANGED << cache, last >>
    /\ LoadFrame

NextLoad ==
    \E g \in Goroutines :
        \/ \E sec \in LoadCalls : BeginCall(g, sec)
        \/ TakeMutex(g)
        \/ FetchObjects(g)
        \/ IndexObject(g)
        \/ ReadCache(g)
        \/ DropMutex(g)

SpecLoad == InitLoad /\ [][NextLoad]_vars

(***************************************************************************)
(* The device orchestrator as a state machine                              *)
(***************************************************************************)

\* Bound on the length of a batch of devices.
MaxDevices == 2

Devices == {DevSrv, DevPP, DevLost}
Batches == UNION { [1..n -> Devices] : n \in 0..MaxDevices }

\* The remote before the run: nothing, or the patch panel (id 1) with its
\* rear port (id 2) from an earlier run.
InitInventory ==
    { {},
      { [RemoteObject("devices", 1, DevPP.Name) EXCEPT !.site = 1, !.role = 2],
        [RemoteObject("rear-ports", 2, DevPP.RearPorts[1].Name) EXCEPT !.device = 1] } }

InitDevices ==
    /\ objects \in InitInventory
    /\ nextObjectID = 3
    /\ dryRun \in BOOLEAN
    /\ managedTagID = Ensure(dryRun, RemoteTags, Nil)
    /\ cache = << >>
    /\ siteLoads = {}
    /\ pendingCables = <<>>
    /\ run = NoRun
    /\ sync = NoSync
    /\ mu = NoLock
    /\ goroutines = NoCalls
    /\ cables = {}
    /\ nextCableID = 1
    /\ respShape \in {"flat", "arrays"}
    /\ processedPairs = {}
    /\ touched = {}
    /\ last = [op |-> "none", ok |-> TRUE]

\* no ReconcileDevices call is under way
Resting == run.phase \in {"idle", "done", "failed"}

\* ReconcileDevices is called with a batch: Phase 1 begins
ReconcileDevices(devices) ==
    /\ Resting
    /\ run' = [phase |-> afterDevice(TRUE, 0, Len(devices)), devices |-> devices, i |-> 1,
               calls |-> 0]
    /\ last' = [op |-> "ReconcileDevices", ok |-> TRUE]
    /\ UNCHANGED << cables, nextCableID, respShape, dryRun, objects, nextObjectID,
                    managedTagID, cache, siteLoads, processedPairs, touched, pendingCables,
                    mu, goroutines >>

\* Phase 1, one turn of the loop: reconcileDevice for the device in turn
Phase1Device ==
    /\ run.phase = "devices"
    /\ \E out \in {reconcileDevice(run.devices[run.i], cache, managedTagID, dryRun, objects,
                                   nextObjectID, pendingCables)} :
        /\ out.nid <= MaxObjectID + 1
        /\ objects' = out.objs
        /\ nextObjectID' = out.nid
        /\ pendingCables' = out.queue
        /\ run' = [run EXCEPT !.phase = afterDevice(out.ok, run.i, Len(run.devices)),
                              !.i = IF out.ok THEN run.i + 1 ELSE run.i]
        /\ last' = [op |-> "reconcileDevice", ok |-> out.ok]
    /\ UNCHANGED << cables, nextCableID, respShape, dryRun, managedTagID, cache, siteLoads,
                    processedPairs, touched, sync, mu,
                    goroutines >>

\* Phase 2: reconcilePendingCables, and ReconcileDevices returns
Phase2Cables ==
    /\ run.phase = "cables"
    /\ \E out \in {reconcilePendingCables(pendingCables, objects,
                                          [shape |-> respShape, dry |-> dryRun],
                                          processedPairs, cables, nextCableID)} :
        /\ out.nid <= MaxCableID + 1
        /\ cables' = out.cs
        /\ nextCableID' = out.nid
        /\ processedPairs' = out.pairs
        /\ run' = [run EXCEPT !.phase = IF out.ok THEN "done" ELSE "failed",
                              !.calls = out.calls]
        /\ last' = [op |-> "reconcilePendingCables", ok |-> out.ok]
    /\ UNCHANGED << respShape, dryRun, objects, nextObjectID, managedTagID, cache, siteLoads,
                    touched, pendingCables, sync, mu,
                    goroutines >>

NextDevices ==
    \/ run.phase = "idle" /\ LoadGlobal
    \/ \E siteSlug \in SiteSlugs : run.phase = "idle" /\ LoadSite(siteSlug)
    \/ \E devices \in Batches : ReconcileDevices(devices) /\ UNCHANGED sync
    \/ Phase1Device
    \/ Phase2Cables

SpecDevices == InitDevices /\ [][NextDevices]_vars

(***************************************************************************)
(* runSync (cmd/netbox-gitops/main.go) as a state machine                  *)
(***************************************************************************)

\* models.Rack values.  The data directory declares racks and devices, and
\* no tag, role, site, VRF, VLAN group, VLAN, prefix, module type or device
\* type: the reconcilers of those loop over nothing.
RackA == [Name |-> << "r", "1" >>, SiteSlug |-> S_a, Status |-> S_active]
RackB == [Name |-> << "r", "2" >>, SiteSlug |-> S_b, Status |-> S_active]
RackLists == { <<>>, << RackA >>, << RackA, RackB >> }

\* What ReconcileRacks carries from one rack to the next; lookups counts
\* its GetID calls on the cache.
rackStep(ok, objs, nid, lookups) ==
    [ok |-> ok, objs |-> objs, nid |-> nid, lookups |-> lookups]

\* the body of ReconcileRacks' loop once the site lookup has answered
reconcileRack(site, rack, tagID, dry, st) ==
    IF ~site.ok THEN rackStep(TRUE, st.objs, st.nid, st.lookups + 1)
    ELSE \* the rack is applied under (site_id, name)
         LET out == ApplyOutcome("racks",
                                 [site_id |-> GoInt(site.id), name |-> GoStr(rack.Name)],
                                 [name |-> GoStr(rack.Name), site |-> GoInt(site.id),
                                  status |-> GoStr(rack.Status)],
                                 tagID, dry, st.objs, st.nid)
         IN  rackStep(out.ok, out.objs, out.nid, st.lookups + 1)

RECURSIVE racksFrom(_, _, _, _, _, _)
racksFrom(i, racks, c, tagID, dry, st) ==
    IF i > Len(racks) \/ ~st.ok THEN st
    ELSE racksFrom(i + 1, racks, c, tagID, dry,
                   reconcileRack(GetID(c, "sites", racks[i].SiteSlug), racks[i], tagID,
                                 dry, st))

ReconcileRacks(racks, c, tagID, dry, objs, nid) ==
    racksFrom(1, racks, c, tagID, dry, rackStep(TRUE, objs, nid, 0))

\* the sites of the devices of the inventory (uniqueSites)
SitesOf(devices) == { devices[i].SiteSlug : i \in 1..Len(devices) }

\* The state after client.NewClient: the remote holds no rack, or rack r1 at
\* site a from an earlier run.
InitSync ==
    /\ objects \in { {}, {[RemoteObject("racks", 1, RackA.Name) EXCEPT !.site = 1]} }
    /\ nextObjectID = 2
    /\ dryRun \in BOOLEAN
    /\ managedTagID = Ensure(dryRun, RemoteTags, Nil)
    /\ cache = << >>
    /\ siteLoads = {}
    /\ pendingCables = <<>>
    /\ run = NoRun
    /\ sync = NoSync
    /\ mu = NoLock
    /\ goroutines = NoCalls
    /\ cables = {}
    /\ nextCableID = 1
    /\ respShape = "flat"
    /\ processedPairs = {}
    /\ touched = {}
    /\ last = [op |-> "none", ok |-> TRUE, lookups |-> 0, loaded |-> {}]

\* what a step of runSync before the devices leaves alone
SyncFrame ==
    UNCHANGED << cables, nextCableID, respShape, dryRun, managedTagID, processedPairs,
                 touched, pendingCables, run, mu, goroutines >>

\* runSync is called on a data directory
RunSync(racks, devices) ==
    /\ sync.pc = "idle"
    /\ sync' = [pc |-> "foundation", racks |-> racks, devices |-> devices]
    /\ last' = [op |-> "runSync", ok |-> TRUE, lookups |-> 0, loaded |-> DOMAIN cache]
    /\ UNCHANGED << objects, nextObjectID, cache, siteLoads >>
    /\ SyncFrame

\* Phase 1, Foundation: tags, roles and sites (none declared), then the racks
PhaseFoundation ==
    /\ sync.pc = "foundation"
    /\ \E out \in {ReconcileRacks(sync.racks, cache, managedTagID, dryRun, objects,
                                  nextObjectID)} :
        /\ out.nid <= MaxObjectID + 1
        /\ objects' = out.objs
        /\ nextObjectID' = out.nid
        /\ sync' = [sync EXCEPT !.pc = IF out.ok THEN "network" ELSE "failed"]
        /\ last' = [op |-> "ReconcileRacks", ok |-> out.ok, lookups |-> out.lookups,
                    loaded |-> DOMAIN cache]
    /\ UNCHANGED << cache, siteLoads >>
    /\ SyncFrame

\* Phase 2, Network & Types: nothing declared, every loop runs over nothing
PhaseNetwork ==
    /\ sync.pc = "network"
    /\ sync' = [sync EXCEPT !.pc = "caches"]
    /\ last' = [op |-> "network", ok |-> TRUE, lookups |-> 0, loaded |-> DOMAIN cache]
    /\ UNCHANGED << objects, nextObjectID, cache, siteLoads >>
    /\ SyncFrame

\* Phase 3, Devices: c.Cache().LoadGlobal()
SyncLoadGlobal ==
    /\ sync.pc = "caches"
    /\ cache' = loadAll(cache, GlobalResources, 0, 0, objects)
    /\ sync' = [sync EXCEPT !.pc = "sites"]
    /\ last' = [op |-> "LoadGlobal", ok |-> TRUE, lookups |-> 0, loaded |-> DOMAIN cache]
    /\ UNCHANGED << objects, nextObjectID, siteLoads >>
    /\ SyncFrame

\* one turn of the loop over uniqueSites (a Go map: any order)
SyncLoadSite(siteSlug) ==
    /\ sync.pc = "sites"
    /\ siteSlug \in SitesOf(sync.devices) \ siteLoads
    /\ \E out \in {LoadSiteOutcome(cache, siteSlug, objects)} :
        /\ cache' = out.c
        /\ siteLoads' = siteLoads \cup {siteSlug}
        /\ sync' = [sync EXCEPT !.pc = IF out.ok THEN "sites" ELSE "failed"]
        /\ last' = [op |-> "LoadSite", ok |-> out.ok, lookups |-> 0,
                    loaded |-> DOMAIN cache]
    /\ UNCHANGED << objects, nextObjectID >>
    /\ SyncFrame

\* the loop over uniqueSites is through: ReconcileDevices is called
SyncDevices ==
    /\ sync.pc = "sites"
    /\ SitesOf(sync.devices) \subseteq siteLoads
    /\ ReconcileDevices(sync.devices)
    /\ sync' = [sync EXCEPT !.pc = "devices"]

NextSync ==
    \/ \E racks \in RackLists, devices \in Batches : RunSync(racks, devices)
    \/ PhaseFoundation
    \/ PhaseNetwork
    \/ SyncLoadGlobal
    \/ \E siteSlug \in SiteSlugs \cup {DevLost.SiteSlug} : SyncLoadSite(siteSlug)
    \/ SyncDevices

SpecSync == InitSync /\ [][NextSync]_vars

(***************************************************************************)
(* calculateDiff on its own                                                *)
(***************************************************************************)

S_planned == << "p", "l", "a", "n", "n", "e", "d" >>

\* a choice field as the remote returns it: {"value": .., "label": ..}, with
\* no id (reconcileIPAddress reads family["value"] of such a field)
Choice(value) == GoMap([value |-> GoStr(value), label |-> GoStr(value)])

\* the existing objects calculateDiff is given: a VLAN as a Filter answer
DiffExisting ==
    { Object([id |-> GoFloat(1), vid |-> GoFloat(10), description |-> GoStr(d),
              site |-> Nested(st), status |-> Choice(status),
              tags |-> GoList([i \in 1..n |-> GoMap([id |-> GoFloat(GitopsTag.id),
                                                      slug |-> GoStr(GitopsTag.slug)])])]) :
      d \in {D_old, D_new}, st \in {1, 2}, status \in {S_active, S_planned}, n \in {0, 1} }

\* the desired payloads: what a reconciler builds and InjectTag completes
DiffDesired ==
    { [vid |-> GoInt(10), description |-> d, site |-> GoInt(st), status |-> status,
       tags |-> GoInts(tags)] :
      d \in {GoStr(D_old), Nil}, st \in {1, 2}, status \in {GoStr(S_active), Nil},
      tags \in {<<>>, << GitopsTag.id >>} }

InitDiff ==
    /\ objects = {}
    /\ nextObjectID = 1
    /\ dryRun = FALSE
    /\ managedTagID = Ensure(dryRun, RemoteTags, Nil)
    /\ cache = << >>
    /\ siteLoads = {}
    /\ pendingCables = <<>>
    /\ run = NoRun
    /\ sync = NoSync
    /\ mu = NoLock
    /\ goroutines = NoCalls
    /\ cables = {}
    /\ nextCableID = 1
    /\ respShape = "flat"
    /\ processedPairs = {}
    /\ touched = {}
    /\ last = [op |-> "none", existing |-> Nil, desired |-> << >>, changes |-> << >>]

CalculateDiff(existing, desired) ==
    /\ last' = [op |-> "calculateDiff", existing |-> existing, desired |-> desired,
                changes |-> calculateDiff(existing, desired)]
    /\ UNCHANGED << cables, nextCableID, respShape, dryRun, objects, nextObjectID,
                    managedTagID, cache, siteLoads, processedPairs, touched, pendingCables,
                    run, sync, mu,
                    goroutines >>

NextDiff == \E existing \in DiffExisting, desired \in DiffDesired :
                CalculateDiff(existing, desired)

SpecDiff == InitDiff /\ [][NextDiff]_vars

(***************************************************************************)
(* findPort on its own                                                     *)
(***************************************************************************)

\* The remote's devices: the patch panel (id 1) and the server (id 2).
PortDevices ==
    { [RemoteObject("devices", 1, DevPP.Name) EXCEPT !.site = 1, !.role = 2],
      [RemoteObject("devices", 2, DevSrv.Name) EXCEPT !.site = 1, !.role = 1] }

\* The remote's ports: the panel's front port 1, its rear ports 1 and r1 (a
\* port name can denote a front port and a rear port), the server's e0.
PortObjects ==
    { [RemoteObject("front-ports", 3, << "1" >>) EXCEPT !.device = 1, !.rear_port = 4],
      [RemoteObject("rear-ports", 4, << "1" >>) EXCEPT !.device = 1],
      [RemoteObject("rear-ports", 5, << "r", "1" >>) EXCEPT !.device = 1],
      [RemoteObject("interfaces", 6, << "e", "0" >>) EXCEPT !.device = 2] }

InitPorts ==
    /\ objects \in { PortDevices \cup ports : ports \in SUBSET PortObjects }
    /\ nextObjectID = 7
    /\ dryRun = FALSE
    /\ managedTagID = Ensure(dryRun, RemoteTags, Nil)
    /\ cache = << >>
    /\ siteLoads = {}
    /\ pendingCables = <<>>
    /\ run = NoRun
    /\ sync = NoSync
    /\ mu = NoLock
    /\ goroutines = NoCalls
    /\ cables = {}
    /\ nextCableID = 1
    /\ respShape = "flat"
    /\ processedPairs = {}
    /\ touched = {}
    /\ last = [op |-> "none", deviceName |-> <<>>, portName |-> <<>>, sourceRole |-> <<>>,
               port |-> NilEnd]

FindPort(deviceName, portName, sourceRole) ==
    /\ last' = [op |-> "findPort", deviceName |-> deviceName, portName |-> portName,
                sourceRole |-> sourceRole,
                port |-> findPort(objects, deviceName, portName, sourceRole)]
    /\ UNCHANGED << cables, nextCableID, respShape, dryRun, objects, nextObjectID,
                    managedTagID, cache, siteLoads, processedPairs, touched, pendingCables,
                    run, sync, mu,
                    goroutines >>

NextPorts ==
    \E deviceName \in {DevPP.Name, DevSrv.Name, DevLost.Name},
       portName \in {<< "1" >>, << "r", "1" >>, << "e", "0" >>},
       sourceRole \in {R_server, R_patchpanel} :
        FindPort(deviceName, portName, sourceRole)

SpecPorts == InitPorts /\ [][NextPorts]_vars

(***************************************************************************)
(* reconcilePendingCables on its own                                       *)
(***************************************************************************)

\* Entries of dr.pendingCables as Phase 1 appends them: the link the server
\* declares on e0 to the panel's port 1, a link of the same interface to a
\* device the remote does not hold, a link of the panel's front port 1 to a
\* port the server does not have, and a link of the panel's rear port of
\* the same name 1 to the server's e0.
PendingIntents ==
    { pendingCable(DevSrv, DevSrv.Interfaces[1], T_interface, 6),
      pendingCable(DevSrv, [Name |-> << "e", "0" >>,
                            Link |-> LinkTo(DevLost.Name, << "e", "1" >>, LinkBlue)],
                   T_interface, 6),
      pendingCable(DevPP, [Name |-> << "1" >>,
                           Link |-> LinkTo(DevSrv.Name, << "1" >>, LinkBlue)],
                   T_frontport, 3),
      pendingCable(DevPP, [Name |-> << "1" >>,
                           Link |-> LinkTo(DevSrv.Name, << "e", "0" >>, LinkBlue)],
                   T_rearport, 4) }

\* Bound on the length of dr.pendingCables.
MaxPending == 2

PendingQueues == UNION { [1..n -> PendingIntents] : n \in 0..MaxPending }

\* ReconcileDevices has ended Phase 1 and is about to walk the queue
InitPending ==
    /\ objects \in { PortDevices \cup ports : ports \in SUBSET PortObjects }
    /\ nextObjectID = 7
    /\ dryRun \in BOOLEAN
    /\ managedTagID = Ensure(dryRun, RemoteTags, Nil)
    /\ cache = << >>
    /\ siteLoads = {}
    /\ pendingCables \in PendingQueues
    /\ run = [phase |-> "cables", devices |-> <<>>, i |-> 1, calls |-> 0]
    /\ sync = NoSync
    /\ mu = NoLock
    /\ goroutines = NoCalls
    /\ cables = {}
    /\ nextCableID = 1
    /\ respShape \in {"flat", "arrays"}
    /\ processedPairs = {}
    /\ touched = {}
    /\ last = [op |-> "none", ok |-> TRUE]

NextPending == Phase2Cables

SpecPending == InitPending /\ [][NextPending]_vars

(***************************************************************************)
(* reconcileFrontPorts on its own                                          *)
(***************************************************************************)

\* Front port declarations of the patch panel: port 1 on rear port r1, port
\* 2 on rear port r2, each with a link to the server's e0.
FrontPortDecls ==
    { [Name |-> << "1" >>, RearPort |-> << "r", "1" >>,
       Link |-> LinkTo(DevSrv.Name, << "e", "0" >>, LinkBlue)],
      [Name |-> << "2" >>, RearPort |-> << "r", "2" >>,
       Link |-> LinkTo(DevSrv.Name, << "e", "0" >>, LinkBlue)] }

\* Bound on the number of front ports a device declares.
MaxFrontPorts == 2

Panels ==
    { [DevPP EXCEPT !.FrontPorts = ports] :
        ports \in UNION { [1..n -> FrontPortDecls] : n \in 0..MaxFrontPorts } }

\* The remote holds the panel (id 1) and some of its rear ports r1 (id 2)
\* and r2 (id 3) and of its front port 1 (id 4) from an earlier run.
InitFrontPorts ==
    /\ objects \in
           { { [RemoteObject("devices", 1, DevPP.Name) EXCEPT !.site = 1, !.role = 2] }
               \cup ports :
             ports \in SUBSET
                 { [RemoteObject("rear-ports", 2, << "r", "1" >>) EXCEPT !.device = 1],
                   [RemoteObject("rear-ports", 3, << "r", "2" >>) EXCEPT !.device = 1],
                   [RemoteObject("front-ports", 4, << "1" >>) EXCEPT !.device = 1,
                                                                    !.rear_port = 2] } }
    /\ nextObjectID = 5
    /\ dryRun \in BOOLEAN
    /\ managedTagID = Ensure(dryRun, RemoteTags, Nil)
    /\ cache = << >>
    /\ siteLoads = {}
    /\ pendingCables = <<>>
    /\ run = NoRun
    /\ sync = NoSync
    /\ mu = NoLock
    /\ goroutines = NoCalls
    /\ cables = {}
    /\ nextCableID = 1
    /\ respShape = "flat"
    /\ processedPairs = {}
    /\ touched = {}
    /\ last = [op |-> "none", ok |-> TRUE, device |-> DevPP, before |-> {}, nid |-> 0,
               queue |-> <<>>]

\* reconcileFrontPorts(deviceID, device) for the panel, whose id is 1
ReconcileFrontPorts(device) ==
    /\ \E out \in {reconcileFrontPorts(1, device, managedTagID, dryRun,
                                        Step(TRUE, objects, nextObjectID, pendingCables))} :
        /\ objects' = out.objs
        /\ nextObjectID' = out.nid
        /\ pendingCables' = out.queue
        /\ last' = [op |-> "reconcileFrontPorts", ok |-> out.ok, device |-> device,
                    before |-> objects, nid |-> nextObjectID, queue |-> pendingCables]
    /\ UNCHANGED << cables, nextCableID, respShape, dryRun, managedTagID, cache, siteLoads,
                    processedPairs, touched, run, sync, mu,
                    goroutines >>

NextFrontPorts == \E device \in Panels : ReconcileFrontPorts(device)

SpecFrontPorts == InitFrontPorts /\ [][NextFrontPorts]_vars

(***************************************************************************)
(* setPrimaryIP on its own                                                 *)
(***************************************************************************)

\* The remote's devices srv (id 1) and pp (id 2) and its addresses 10.1
\* (id 3) and fd::1 (id 4).
AddressObjects ==
    { RemoteObject("devices", 1, DevSrv.Name), RemoteObject("devices", 2, DevPP.Name),
      RemoteObject("ip-addresses", 3, << "1", "0", ".", "1" >>),
      RemoteObject("ip-addresses", 4, << "f", "d", ":", ":", "1" >>) }

InitPrimaryIP ==
    /\ objects \in SUBSET AddressObjects
    /\ nextObjectID = 5
    /\ dryRun \in BOOLEAN
    /\ managedTagID = Ensure(dryRun, RemoteTags, Nil)
    /\ cache = << >>
    /\ siteLoads = {}
    /\ pendingCables = <<>>
    /\ run = NoRun
    /\ sync = NoSync
    /\ mu = NoLock
    /\ goroutines = NoCalls
    /\ cables = {}
    /\ nextCableID = 1
    /\ respShape = "flat"
    /\ processedPairs = {}
    /\ touched = {}
    /\ last = [op |-> "none", deviceID |-> 0, ipID |-> 0, ok |-> TRUE, reads |-> 0,
               writes |-> <<>>, again |-> FALSE]

\* setPrimaryIP(deviceID, ipID); again says that the call repeats the call
\* before it, which returned without error
SetPrimaryIP(deviceID, ipID) ==
    /\ \E out \in {setPrimaryIP(deviceID, ipID, dryRun, objects, nextObjectID)} :
        /\ objects' = out.objs
        /\ nextObjectID' = out.nid
        /\ last' = [op |-> "setPrimaryIP", deviceID |-> deviceID, ipID |-> ipID,
                    ok |-> out.ok, reads |-> out.reads, writes |-> out.writes,
                    again |-> /\ last.op = "setPrimaryIP" /\ last.ok
                              /\ last.deviceID = deviceID /\ last.ipID = ipID]
    /\ UNCHANGED << cables, nextCableID, respShape, dryRun, managedTagID, cache, siteLoads,
                    processedPairs, touched, pendingCables, run, sync, mu, goroutines >>

NextPrimaryIP == \E deviceID \in {1, 2}, ipID \in {3, 4} : SetPrimaryIP(deviceID, ipID)

SpecPrimaryIP == InitPrimaryIP /\ [][NextPrimaryIP]_vars

(***************************************************************************)
(* InjectTag and tagsEqual on their own                                    *)
(***************************************************************************)

MaxTags == 2

\* One entry of a "tags" value: a bare id, a number as encoding/json decodes
\* it, a nested tag object with or without an id, a client.Object.
TagEntries ==
    { GoInt(GitopsTag.id), GoInt(3), GoFloat(GitopsTag.id),
      GoMap([id |-> GoFloat(GitopsTag.id)]), GoMap([id |-> GoFloat(3)]),
      GoMap([slug |-> GoStr(GitopsTag.slug)]), Object([id |-> GoFloat(GitopsTag.id)]) }

TagLists == UNION { [1..n -> TagEntries] : n \in 0..MaxTags }

IntLists == UNION { [1..n -> {3, GitopsTag.id}] : n \in 0..MaxTags }

\* payloads handed to InjectTag: without "tags", with a []interface{} and
\* with a []int as reconcileModules builds it, of the managed tag or another
InjectPayloads ==
    { [name |-> GoStr(<< "a" >>)] }
    \cup { [name |-> GoStr(<< "a" >>), tags |-> t] :
           t \in { GoList(l) : l \in TagLists }
                 \cup { GoInts(<<>>), GoInts(<< GitopsTag.id >>), GoInts(<< 3 >>) } }

InitTags ==
    /\ objects = {}
    /\ nextObjectID = 1
    /\ dryRun \in BOOLEAN
    /\ managedTagID = Ensure(dryRun, RemoteTags, Nil)
    /\ cache = << >>
    /\ siteLoads = {}
    /\ pendingCables = <<>>
    /\ run = NoRun
    /\ sync = NoSync
    /\ mu = NoLock
    /\ goroutines = NoCalls
    /\ cables = {}
    /\ nextCableID = 1
    /\ respShape = "flat"
    /\ processedPairs = {}
    /\ touched = {}
    /\ last = [op |-> "none", payload |-> << >>, tagID |-> 0, result |-> << >>,
               existing |-> Nil, desired |-> Nil, equal |-> FALSE]

TagsFrame ==
    UNCHANGED << cables, nextCableID, respShape, dryRun, objects, nextObjectID,
                 managedTagID, cache, siteLoads, processedPairs, touched, pendingCables,
                 run, sync, mu, goroutines >>

\* tm.InjectTag(payload, tagID)
InjectTagCall(payload, tagID) ==
    /\ last' = [op |-> "InjectTag", payload |-> payload, tagID |-> tagID,
                result |-> InjectTag(payload, tagID),
                existing |-> Nil, desired |-> Nil, equal |-> FALSE]
    /\ TagsFrame

\* c.tagsEqual(existingValue, desiredValue)
TagsEqualCall(existing, desired) ==
    /\ last' = [op |-> "tagsEqual", payload |-> << >>, tagID |-> 0, result |-> << >>,
                existing |-> existing, desired |-> desired,
                equal |-> tagsEqual(existing, desired)]
    /\ TagsFrame

NextTags ==
    \/ \E payload \in InjectPayloads, tagID \in {0, GitopsTag.id} :
           InjectTagCall(payload, tagID)
    \/ \E l \in TagLists, d \in IntLists : TagsEqualCall(GoList(l), GoInts(d))

SpecTags == InitTags /\ [][NextTags]_vars

(***************************************************************************)
(* reconcileDeviceBays and reconcileModules on their own                   *)
(***************************************************************************)

MT_psu == << "p", "s", "u" >>

ModuleDecls ==
    { [Name |-> << "m", "1" >>, ModuleTypeSlug |-> MT_psu, Status |-> <<>>, Serial |-> <<>>],
      [Name |-> << "m", "2" >>, ModuleTypeSlug |-> MT_psu, Status |-> S_active,
       Serial |-> << "x" >>] }

\* Bound on the number of modules a device declares.
MaxModules == 2

Chassis ==
    { [Name |-> << "c", "h" >>, Modules |-> mods] :
        mods \in UNION { [1..n -> ModuleDecls] : n \in 0..MaxModules } }

\* The remote holds the chassis (id 1, of device type 1 or 2) and some of
\* its device bays b1 (id 2) and b2 (id 3), of its module bay m1 (id 4) and
\* of the module in it (id 5) from an earlier run.  The cache holds the
\* module type psu (id 9) or nothing.
InitBays ==
    /\ objects \in
           { { [RemoteObject("devices", 1, << "c", "h" >>) EXCEPT !.site = 1, !.role = 1] }
               \cup parts :
             parts \in SUBSET
                 { [RemoteObject("device-bays", 2, << "b", "1" >>) EXCEPT !.device = 1],
                   [RemoteObject("device-bays", 3, << "b", "2" >>) EXCEPT !.device = 1],
                   [RemoteObject("module-bays", 4, << "m", "1" >>) EXCEPT !.device = 1],
                   [RemoteObject("modules", 5, <<>>) EXCEPT !.device = 1] } }
    /\ nextObjectID = 6
    /\ dryRun \in BOOLEAN
    /\ managedTagID = Ensure(dryRun, RemoteTags, Nil)
    /\ cache \in { << >>, [r \in {"module_types"} |-> [s \in {MT_psu} |-> 9]] }
    /\ siteLoads = {}
    /\ pendingCables = <<>>
    /\ run = NoRun
    /\ sync = NoSync
    /\ mu = NoLock
    /\ goroutines = NoCalls
    /\ cables = {}
    /\ nextCableID = 1
    /\ respShape = "flat"
    /\ processedPairs = {}
    /\ touched = {}
    /\ last = [op |-> "none", ok |-> TRUE, deviceTypeID |-> 0, before |-> {}, mid |-> {},
               writes |-> <<>>]

\* reconcileDevice from its call of reconcileDeviceBays on, for the chassis
\* (id 1) and the id of its device type
ReconcileBaysAndModules(deviceTypeID, device) ==
    /\ \E out \in {baysThenModules(1, deviceTypeID, device, cache, managedTagID, dryRun,
                                   Trace(TRUE, objects, nextObjectID, <<>>))} :
        /\ objects' = out.objs
        /\ nextObjectID' = out.nid
        /\ last' = [op |-> "reconcileDevice", ok |-> out.ok, deviceTypeID |-> deviceTypeID,
                    before |-> objects, mid |-> out.mid, writes |-> out.writes]
    /\ UNCHANGED << cables, nextCableID, respShape, dryRun, managedTagID, cache, siteLoads,
                    processedPairs, touched, pendingCables, run, sync, mu, goroutines >>

NextBays == \E deviceTypeID \in {1, 2}, device \in Chassis :
                ReconcileBaysAndModules(deviceTypeID, device)

SpecBays == InitBays /\ [][NextBays]_vars

(***************************************************************************)
(* GetIDFromObject on its own                                              *)
(***************************************************************************)

\* Bound on the ids of the objects GetIDFromObject is called with.
MaxID == 15

\* The "id" values of a map: an int, a float64 as encoding/json decodes a
\* number, a string, or no "id" key at all.
IDFields ==
    { [id |-> GoInt(n)] : n \in 0..MaxID } \cup { [id |-> GoFloat(n)] : n \in 0..MaxID }
    \cup { [id |-> GoStr(s)] : s \in { << "7" >>, << " ", "7" >>, << "x" >>, <<>> } }
    \cup { [name |-> GoStr(<< "a" >>)] }

\* What GetIDFromObject is called with: nil, bare numbers, strings, a
\* map[string]interface{} and a client.Object.
IDInputs ==
    { Nil } \cup { GoInt(n) : n \in 0..MaxID } \cup { GoFloat(n) : n \in 0..MaxID }
    \cup { GoStr(s) : s \in { << "7" >>, << " ", "7" >>, << "x" >>, <<>> } }
    \cup { GoMap(f) : f \in IDFields } \cup { Object(f) : f \in IDFields }

InitIDs ==
    /\ objects = {}
    /\ nextObjectID = 1
    /\ dryRun \in BOOLEAN
    /\ managedTagID = Ensure(dryRun, RemoteTags, Nil)
    /\ cache = << >>
    /\ siteLoads = {}
    /\ pendingCables = <<>>
    /\ run = NoRun
    /\ sync = NoSync
    /\ mu = NoLock
    /\ goroutines = NoCalls
    /\ cables = {}
    /\ nextCableID = 1
    /\ respShape = "flat"
    /\ processedPairs = {}
    /\ touched = {}
    /\ last = [op |-> "none", obj |-> Nil, id |-> 0]

\* utils.GetIDFromObject(obj)
GetIDFromObjectCall(obj) ==
    /\ last' = [op |-> "GetIDFromObject", obj |-> obj, id |-> GetIDFromObject(obj)]
    /\ UNCHANGED << cables, nextCableID, respShape, dryRun, objects, nextObjectID,
                    managedTagID, cache, siteLoads, processedPairs, touched, pendingCables,
                    run, sync, mu, goroutines >>

NextIDs == \E obj \in IDInputs : GetIDFromObjectCall(obj)

SpecIDs == InitIDs /\ [][NextIDs]_vars

(***************************************************************************)
(* verifyCable on its own                                                  *)
(***************************************************************************)

C_blue == << "b", "l", "u", "e" >>
C_bluehex == << "0", "0", "0", "0", "f", "f" >>
CT_cat6 == << "c", "a", "t", "6" >>
CT_dac == << "d", "a", "c" >>

\* Existing cables as verifyCable reads them: a type, a color (a name, a
\* hex code or none) and a length or none.
VerifyCables ==
    { Object([type |-> GoStr(t), color |-> c, length |-> l]) :
        t \in {CT_cat6, CT_dac},
        c \in {GoStr(C_blue), GoStr(C_bluehex), GoStr(<<>>), Nil},
        l \in {GoFloat(5), GoFloat(10), Nil} }

\* The links verifyCable is called with, the nil link included.
VerifyLinks ==
    { [CableType |-> t, Color |-> c, Length |-> l, LengthUnit |-> <<>>] :
        t \in {<<>>, CT_cat6, CT_dac},
        c \in {<<>>, C_blue, << "B", "l", "u", "e" >>, C_bluehex,
               << "#", "0", "0", "0", "0", "F", "F" >>},
        l \in {0, 5, 10} }
    \cup {NilLink}

InitVerify ==
    /\ objects = {}
    /\ nextObjectID = 1
    /\ dryRun \in BOOLEAN
    /\ managedTagID = Ensure(dryRun, RemoteTags, Nil)
    /\ cache = << >>
    /\ siteLoads = {}
    /\ pendingCables = <<>>
    /\ run = NoRun
    /\ sync = NoSync
    /\ mu = NoLock
    /\ goroutines = NoCalls
    /\ cables = {}
    /\ nextCableID = 1
    /\ respShape = "flat"
    /\ processedPairs = {}
    /\ touched = {}
    /\ last = [op |-> "none", cable |-> Nil, link |-> NilLink, ok |-> TRUE]

\* cr.verifyCable(cable, aEnd, bEnd, link)
VerifyCableCall(cable, link) ==
    /\ last' = [op |-> "verifyCable", cable |-> cable, link |-> link,
                ok |-> verifyCable(cable, link)]
    /\ UNCHANGED << cables, nextCableID, respShape, dryRun, objects, nextObjectID,
                    managedTagID, cache, siteLoads, processedPairs, touched, pendingCables,
                    run, sync, mu, goroutines >>

NextVerify == \E cable \in VerifyCables, link \in VerifyLinks : VerifyCableCall(cable, link)

SpecVerify == InitVerify /\ [][NextVerify]_vars

(***************************************************************************)
(* NewClient's Ensure beside another process                               *)
(***************************************************************************)

\* Bound on the ids the remote gives to tags.
MaxTagID == 5

\* ids of the remote's tags of the managed slug
TagIDs(objs) == { o.id : o \in { t \in objs : t.endpoint = "tags" /\ t.name = GitopsTag.slug } }

\* Ensure's position, and whether its Create has failed
EnsureAt(pc, failed) == [ensure |-> [pc |-> pc, failed |-> failed]]

\* No client is constructed yet; the remote holds the managed tag or not.
InitEnsure ==
    /\ objects \in { {}, {RemoteObject("tags", 1, GitopsTag.slug)} }
    /\ nextObjectID = 2
    /\ dryRun = FALSE
    /\ managedTagID = 0
    /\ cache = << >>
    /\ siteLoads = {}
    /\ pendingCables = <<>>
    /\ run = NoRun
    /\ sync = NoSync
    /\ mu = NoLock
    /\ goroutines = EnsureAt("idle", FALSE)
    /\ cables = {}
    /\ nextCableID = 1
    /\ respShape = "flat"
    /\ processedPairs = {}
    /\ touched = {}
    /\ last = [op |-> "none", id |-> 0, ok |-> TRUE, failed |-> FALSE, seen |-> {}]

EnsureFrame ==
    UNCHANGED << cables, nextCableID, respShape, cache, siteLoads, processedPairs, touched,
                 pendingCables, run, sync, mu >>

\* Ensure has returned: NewClient keeps the id, or fails with Ensure's error
ensureReturns(out, failed, seen) ==
    /\ goroutines' = EnsureAt(out.pc, failed)
    /\ managedTagID' = IF out.pc = "done" /\ out.ok THEN out.id ELSE managedTagID
    /\ last' = IF out.pc = "done"
               THEN [op |-> "Ensure", id |-> out.id, ok |-> out.ok, failed |-> failed,
                     seen |-> seen]
               ELSE [op |-> "step", id |-> 0, ok |-> TRUE, failed |-> failed, seen |-> seen]

\* client.NewClient(baseURL, token, dryRun) up to its call of Ensure
NewClient(dry) ==
    /\ goroutines.ensure.pc \in {"idle", "done"}
    /\ dryRun' = dry
    /\ managedTagID' = 0
    /\ goroutines' = EnsureAt("lookup", FALSE)
    /\ last' = [op |-> "NewClient", id |-> 0, ok |-> TRUE, failed |-> FALSE, seen |-> {}]
    /\ UNCHANGED << objects, nextObjectID >>
    /\ EnsureFrame

EnsureLookup ==
    /\ goroutines.ensure.pc = "lookup"
    /\ ensureReturns(ensureLookup(dryRun, objects), FALSE, TagIDs(objects))
    /\ UNCHANGED << objects, nextObjectID, dryRun >>
    /\ EnsureFrame

EnsureCreate(fault) ==
    /\ goroutines.ensure.pc = "create"
    /\ nextObjectID <= MaxTagID
    /\ \E out \in {ensureCreate(objects, nextObjectID, fault)} :
        /\ objects' = out.objs
        /\ nextObjectID' = out.nid
        /\ ensureReturns(out, out.pc = "retry", TagIDs(out.objs))
    /\ UNCHANGED dryRun
    /\ EnsureFrame

EnsureRetry ==
    /\ goroutines.ensure.pc = "retry"
    /\ ensureReturns(ensureRetry(objects), TRUE, TagIDs(objects))
    /\ UNCHANGED << objects, nextObjectID, dryRun >>
    /\ EnsureFrame

\* another process creates the managed tag
OtherCreates ==
    /\ TagIDs(objects) = {}
    /\ nextObjectID <= MaxTagID
    /\ objects' = objects \cup {RemoteObject("tags", nextObjectID, GitopsTag.slug)}
    /\ nextObjectID' = nextObjectID + 1
    /\ UNCHANGED << dryRun, managedTagID, goroutines, last >>
    /\ EnsureFrame

\* another process deletes the managed tag
OtherDeletes ==
    /\ TagIDs(objects) # {}
    /\ objects' = {}
    /\ UNCHANGED << nextObjectID, dryRun, managedTagID, goroutines, last >>
    /\ EnsureFrame

NextEnsure ==
    \/ \E dry \in BOOLEAN : NewClient(dry)
    \/ EnsureLookup
    \/ \E fault \in BOOLEAN : EnsureCreate(fault)
    \/ EnsureRetry
    \/ OtherCreates
    \/ OtherDeletes

SpecEnsure == InitEnsure /\ [][NextEnsure]_vars

(***************************************************************************)
(* A dry run beside a live run                                             *)
(***************************************************************************)

\* one logged or sent mutating call
Act(method, endpoint) == [method |-> method, endpoint |-> endpoint]

\* the writes a client call sent
Sent(out) == [i \in 1..Len(out.writes) |-> Act(out.writes[i].method, out.writes[i].endpoint)]

\* the line Request logs for the mutating call it intercepted in dry-run
Logged(out, method, endpoint) ==
    IF out.intercepted THEN << Act(method, endpoint) >> ELSE <<>>

\* NewClient's Ensure with no other process about: [id, ok, objs, nid, acts]
ensureAlone(dry, objs, nid) ==
    LET lookup == ensureLookup(dry, objs)
        created == ensureCreate(objs, nid, FALSE)
    IN  IF lookup.pc = "done"
        THEN [id |-> lookup.id, ok |-> lookup.ok, objs |-> objs, nid |-> nid, acts |-> <<>>]
        ELSE [id |-> created.id, ok |-> created.ok, objs |-> created.objs,
              nid |-> created.nid, acts |-> << Act("POST", "tags") >>]

\* The mutating calls of reconcileDevice once the device is applied, sent
\* or logged: the Apply of the device (applied), and a create for every
\* object its components add (done is the remote as they leave it).
deviceActs(applied, done, method) ==
    Sent(applied) \o Logged(applied, method, "devices")
        \o [i \in 1..Cardinality(done.objs \ applied.objs) |-> Act("POST", "components")]

\* what reconcileDevice leaves (done) with the calls it made
withActs(done, applied, method) ==
    [objs |-> done.objs, nid |-> done.nid, acts |-> deviceActs(applied, done, method)]

\* reconcileDevice's components after the Apply, with the calls of both
componentsOf(applied, device, c, tagID, dry, method) ==
    withActs(reconcileComponents(applied, device, c, tagID, dry, <<>>), applied, method)

\* reconcileDevice after NewClient's Ensure (tag): [objs, nid, acts]
deviceAfter(tag, device, c, dry) ==
    LET site == GetID(c, "sites", device.SiteSlug)
        role == GetID(c, "roles", device.RoleSlug)
        deviceType == GetID(c, "device_types", device.DeviceTypeSlug)
    IN  IF ~site.ok \/ ~role.ok \/ ~deviceType.ok
        THEN [objs |-> tag.objs, nid |-> tag.nid, acts |-> tag.acts]
        ELSE [componentsOf(applyDevice(device, site.id, role.id, deviceType.id, tag.id, dry,
                                       tag.objs, tag.nid),
                           device, c, tag.id, dry,
                           IF Len(FilterObjects(tag.objs, "devices",
                                                [name |-> GoStr(device.Name),
                                                 site_id |-> GoInt(site.id)])) = 0
                           THEN "POST" ELSE "PATCH")
              EXCEPT !.acts = tag.acts \o @]

\* the program in one mode: NewClient, then reconcileDevice
programOn(device, c, dry, objs, nid) == deviceAfter(ensureAlone(dry, objs, nid), device, c, dry)

\* The remote holds the managed tag (id 1) or not, and the device pp (id 2)
\* or not; the cache is as LoadGlobal leaves it.
InitPreview ==
    /\ objects \in SUBSET { RemoteObject("tags", 1, GitopsTag.slug),
                            [RemoteObject("devices", 2, DevPP.Name) EXCEPT !.site = 1,
                                                                          !.role = 2] }
    /\ nextObjectID = 3
    /\ dryRun = FALSE
    /\ managedTagID = 0
    /\ cache = << >>
    /\ siteLoads = {}
    /\ pendingCables = <<>>
    /\ run = NoRun
    /\ sync = NoSync
    /\ mu = NoLock
    /\ goroutines = NoCalls
    /\ cables = {}
    /\ nextCableID = 1
    /\ respShape = "flat"
    /\ processedPairs = {}
    /\ touched = {}
    /\ last = [op |-> "none", device |-> DevSrv, before |-> {}, logged |-> <<>>,
               sent |-> <<>>]

\* The program (NewClient, then reconcileDevice) is run on the device dry
\* and then live, on the same remote: logged is what the dry run logs, sent
\* what the live run sends.
Preview(device) ==
    /\ nextObjectID <= MaxObjectID + 2
    /\ \E on \in {[dry \in BOOLEAN |-> programOn(device, cache, dry, objects, nextObjectID)]} :
        /\ objects' = on[FALSE].objs
        /\ nextObjectID' = on[FALSE].nid
        /\ last' = [op |-> "preview", device |-> device, before |-> objects,
                    logged |-> on[TRUE].acts, sent |-> on[FALSE].acts]
    /\ UNCHANGED << cables, nextCableID, respShape, dryRun, managedTagID, cache, siteLoads,
                    processedPairs, touched, pendingCables, run, sync, mu, goroutines >>

\* another client of the remote removes what it holds
RemoteCleared ==
    /\ objects # {}
    /\ \E o \in objects : objects' = objects \ {o}
    /\ UNCHANGED << cables, nextCableID, respShape, dryRun, nextObjectID, managedTagID,
                    cache, siteLoads, processedPairs, touched, pendingCables, run, sync, mu,
                    goroutines, last >>

NextPreview ==
    \/ \E device \in {DevSrv, DevPP, DevLost} : Preview(device)
    \/ RemoteCleared

SpecPreview == InitPreview /\ [][NextPreview]_vars

(***************************************************************************)
(* Properties of GetIDFromObject                                           *)
(***************************************************************************)

\* C31: GetIDFromObject returns the numeric id of every map-shaped object
\* that has an id field, a value of a named map type such as client.Object
\* included, and returns 0 only for nil and for objects without an id.
C31_IDOfEveryMapShape ==
    (last.op = "GetIDFromObject" /\ last.obj.k \in {"map", "Object"}) =>
        IF Field(last.obj.v, "id").k \in {"int", "float64"}
        THEN last.id = Field(last.obj.v, "id").v
        ELSE Field(last.obj.v, "id").k = "nil" => last.id = 0

\* C34: when another process creates the tag between Ensure's lookup and
\* its create request, so that the create fails, Ensure returns the id of
\* the tag that now exists and no error; it returns an error only if the tag
\* is still absent at the retry lookup.
C34_CreateRaceRecovered ==
    (last.op = "Ensure" /\ last.failed) =>
        IF last.seen # {} THEN last.ok /\ last.id \in last.seen ELSE ~last.ok

(***************************************************************************)
(* Properties of the client                                                *)
(***************************************************************************)

\* C1: of two consecutive Apply calls with identical inputs the second sends
\* no write, and the two together send exactly one create or update when the
\* remote did not hold the desired object before the first.
C1_ApplyIdempotence ==
    (last.op = "Apply" /\ last.again /\ ~dryRun) =>
        /\ last.writes = <<>>
        /\ last.before = IF last.wasDue THEN 1 ELSE 0

\* C5: in dry-run no call sends a create, update or delete and the remote
\* stays as it was, reads are still sent, and every intercepted call is
\* answered with a synthetic object of id 0.
C5_DryRunSendsNoWrite ==
    dryRun =>
        /\ last.writes = <<>>
        /\ ~last.changed
        /\ last.op \in {"Apply", "Get"} => last.reads = 1
        /\ last.op \in {"Create", "Update", "Delete"} => last.intercepted
        /\ last.intercepted => last.synthetic = Object([id |-> GoInt(0)])

\* a dry-run Apply looked the object up at the remote, found none, and had
\* its create intercepted
C5_Witness ==
    /\ dryRun
    /\ last.op = "Apply"
    /\ last.reads = 1
    /\ last.intercepted
    /\ last.synthetic = Object([id |-> GoInt(0)])
    /\ objects = {}

\* C15: a live Apply call that finds an object under its lookup makes the
\* lookup and then, when the diff of the object and the tagged payload is not
\* empty, exactly one update request whose body is the diff; when the diff
\* is empty, no further request.
C15_DiffDrivesUpdate ==
    [][(/\ last'.op = "Apply" /\ ~dryRun
        /\ Len(FilterObjects(objects, "vlans", LookupOf(last'.input))) > 0) =>
            LET changes == calculateDiff(
                               FilterObjects(objects, "vlans", LookupOf(last'.input))[1],
                               InjectTag(last'.input, managedTagID))
            IN  /\ last'.reads = 1
                /\ IF DOMAIN changes # {}
                   THEN /\ Len(last'.writes) = 1
                        /\ last'.writes[1].method = "PATCH"
                        /\ last'.writes[1].body = changes
                   ELSE last'.writes = <<>>]_vars

(***************************************************************************)
(* Properties of the cache                                                 *)
(***************************************************************************)

\* C4: once both sites are loaded, the identifier both sites hold resolves at
\* site a to site a's object and at site b to site b's object at once.
C4_NoCacheCollision ==
    (/\ {S_a, S_b} \subseteq siteLoads
     /\ {o \in RemoteVlans : o.name = N_idrac} \subseteq objects) =>
        /\ GetSiteID(cache, "vlans", 1, N_idrac) = [id |-> 75, ok |-> TRUE]
        /\ GetSiteID(cache, "vlans", 2, N_idrac) = [id |-> 74, ok |-> TRUE]

InSection(g) == goroutines[g].pc \in {"held", "unlock"}

\* C25: in every interleaving of the goroutines' cache calls, a goroutine
\* inside a method that touches cm.cache holds cm.mu, locked when the method
\* writes and at least read-locked when it reads, and no goroutine is
\* inside a writing method while another is inside any method.
C25_CacheAccessUnderMutex ==
    /\ \A g \in Goroutines :
           InSection(g) =>
               IF WritesCache(goroutines[g].sec.method) THEN mu.w = g
               ELSE mu.w = g \/ (g \in mu.r /\ mu.w = "")
    /\ \A g \in Goroutines : \A h \in Goroutines \ {g} :
           (InSection(g) /\ InSection(h)) =>
               /\ ~WritesCache(goroutines[g].sec.method)
               /\ ~WritesCache(goroutines[h].sec.method)

\* one goroutine is inside loadResource for LoadGlobal, the sites loaded
\* already, while the other stands before the mutex call of loadResource
\* for its own LoadGlobal
C25_Witness ==
    \E g \in Goroutines : \E h \in Goroutines \ {g} :
        /\ InSection(g) /\ goroutines[g].sec.method = "loadResource"
        /\ goroutines[g].call = "LoadGlobal" /\ "sites" \in DOMAIN cache
        /\ goroutines[h].call = "LoadGlobal" /\ goroutines[h].pc = "lock"
        /\ mu.w = g

\* C40: a GetID or GetSiteID never reads cm.cache while a load of the
\* resource it asks for is inside its indexing loop with some objects
\* indexed and others to come, and no goroutine is at its lookup while
\* another is partway: the reader sees the collection as it was before the
\* load or as the whole load leaves it.
C40_LoadSeenWholeOrNotAtAll ==
    /\ last.op \in {"GetID", "GetSiteID"} => ~last.partial
    /\ \A g \in Goroutines : \A h \in Goroutines \ {g} :
           (/\ goroutines[g].sec.method \in {"GetID", "GetSiteID"}
            /\ goroutines[g].pc \in {"held", "unlock"}) =>
               ~Partway(goroutines[h], goroutines[g].sec.resource)

\* a lookup of the sites has been made, a goroutine is inside the loop of
\* the load of the sites with one of the two sites behind it, and the other
\* goroutine stands before the mutex call of its own lookup of the sites
C40_Witness ==
    \E g \in Goroutines : \E h \in Goroutines \ {g} :
        /\ last.op = "GetID" /\ last.resource = "sites"
        /\ Partway(goroutines[g], "sites") /\ mu.w = g
        /\ goroutines[h].sec.method = "GetID" /\ goroutines[h].pc = "lock"

(***************************************************************************)
(* Properties of cable reconciliation                                      *)
(***************************************************************************)

\* the last call was ReconcileCable for two different ports, in a live run,
\* with the remote answering every request
LiveCableCall ==
    /\ last.op = "ReconcileCable"
    /\ last.fault = "none"
    /\ ~dryRun
    /\ Cardinality(last.pair) = 2
    /\ last.pair \subseteq RemotePorts

\* C2: reconciling one link intent yields exactly one cable between the two
\* endpoints, carrying the desired attributes, and a call made when that
\* cable is already there (every call after the first) sends no write.
C2_CableIdempotence ==
    /\ (LiveCableCall /\ last.passed /\ last.link # NilLink) =>
           /\ Cardinality(Between(cables, last.pair)) = 1
           /\ \A c \in Between(cables, last.pair) : Carries(c, last.link)
    /\ (LiveCableCall /\ last.had) => last.writes = <<>>

\* C3: when a port of the pair held a cable to a wrong peer and the call for
\* the correct link returned without error, the wrong cable is gone and the
\* correct cable is there.
C3_StrayCableHealed ==
    (LiveCableCall /\ last.passed /\ last.ok /\ last.stray # {}) =>
        /\ \A c \in cables : c.id \notin last.stray
        /\ Between(cables, last.pair) # {}

\* C6: in a live run every create and update request carries the ownership
\* tag in its payload.
C6_WritesCarryTag ==
    (last.op = "ReconcileCable" /\ ~dryRun) =>
        \A i \in 1..Len(last.writes) :
            last.writes[i].method \in {"POST", "PATCH"} => BodyTagged(last.writes[i].body, FALSE)

\* C7: no update or delete request addresses an object that does not carry
\* the gitops tag.
C7_OnlyTaggedTouched ==
    last.op = "ReconcileCable" =>
        \A i \in 1..Len(last.writes) :
            last.writes[i].method \in {"PATCH", "DELETE"} => last.writes[i].managed

\* C10: a call for an endpoint pair that already went past the
\* processed-pair check since the last Reset, declared from either end, does
\* not go past it again: it returns at once, without error and without any
\* request to the remote.
C10_OnePassPerPair ==
    (last.op = "ReconcileCable" /\ last.seen) =>
        /\ ~last.passed
        /\ last.ok
        /\ last.reads = 0
        /\ last.writes = <<>>

\* a call declared from the other end of a pair already handled was answered
\* from the processed-pair set
C10_Witness ==
    /\ last.op = "ReconcileCable"
    /\ last.seen
    /\ last.flipped
    /\ ~last.passed
    /\ last.reads = 0

\* C18: in a ReconcileCable call that goes past the processed-pair check
\* while the remote answers, findExistingCable on the two endpoints, in
\* either order, reports no cable exactly when the remote holds no cable
\* between them, and a cable it reports is one of the remote's cables
\* between them; in either shape of the remote's answers.
C18_ExistingCableFound ==
    [][(last'.op = "ReconcileCable" /\ last'.passed /\ last'.fault = "none") =>
        \A a \in Endpoints, b \in Endpoints :
            (a # b /\ {TermOf(a), TermOf(b)} = last'.pair) =>
                LET found == findExistingCable(a, b, cables, respShape).cable
                IN  /\ found = Nil <=> Between(cables, last'.pair) = {}
                    /\ found # Nil =>
                          \E c \in Between(cables, last'.pair) :
                              Index(found, "id") = GoFloat(c.id)]_vars

\* the attributes among cable type, normalized color and length that the
\* link asks for and the cable does not have, as an update would carry them
Differing(c, link) ==
    (IF link.CableType # <<>> /\ c.type # link.CableType
     THEN [type |-> GoStr(link.CableType)] ELSE NoBody)
    @@ (IF link.Color # <<>> /\ c.color # normalizeColor(link.Color)
        THEN [color |-> GoStr(normalizeColor(link.Color))] ELSE NoBody)
    @@ (IF link.Length > 0 /\ c.length # link.Length
        THEN [length |-> GoFloat(link.Length)] ELSE NoBody)

\* C19: in a live ReconcileCable call with a link, while the remote answers,
\* that finds the existing cable between its two endpoints: when the cable
\* has the link's cable type, normalized color and length, no write is sent;
\* otherwise one update of that cable is sent, and it carries the differing
\* attributes only.
C19_VerifyThenUpdate ==
    [][(/\ last'.op = "ReconcileCable" /\ last'.passed /\ last'.fault = "none"
        /\ ~dryRun /\ last'.link # NilLink) =>
        \A a \in Endpoints, b \in Endpoints, c \in cables :
            (/\ a # b /\ {TermOf(a), TermOf(b)} = last'.pair
             /\ findExistingCable(a, b, cables, respShape).cable # Nil
             /\ Index(findExistingCable(a, b, cables, respShape).cable, "id")
                    = GoFloat(c.id)) =>
                IF DOMAIN Differing(c, last'.link) = {}
                THEN last'.writes = <<>>
                ELSE /\ Len(last'.writes) = 1
                     /\ last'.writes[1].method = "PATCH"
                     /\ last'.writes[1].id = c.id
                     /\ last'.writes[1].body = Differing(c, last'.link)]_vars

\* C20: when a ReconcileCable call sends a create request, every cable the
\* remote held on a port of the pair towards another peer was deleted by the
\* call before the create.
C20_CreateOnlyWhenFree ==
    last.op = "ReconcileCable" =>
        \A i \in 1..Len(last.writes) :
            last.writes[i].method = "POST" =>
                \A id \in last.stray :
                    \E j \in 1..(i - 1) : /\ last.writes[j].method = "DELETE"
                                          /\ last.writes[j].id = id

\* C13: for every pair of endpoints a call took past the processed-pair
\* check, the pair id the call stored is the pair id of the two endpoints in
\* the other order: createPairID(A, B) = createPairID(B, A).
C13_PairIDSymmetric ==
    \A a \in Endpoints, b \in Endpoints :
        << TermOf(a), TermOf(b) >> \in touched =>
            /\ createPairID(a, b) \in processedPairs
            /\ createPairID(b, a) = createPairID(a, b)

\* the pair was declared from the server's end only, its two keys sort the
\* other way round, and the id of the pair declared from the patch panel's
\* end is in the processed pairs
C13_Witness ==
    /\ << TermOf(EndSrv), TermOf(EndPP) >> \in touched
    /\ << TermOf(EndPP), TermOf(EndSrv) >> \notin touched
    /\ StrLess(EndPP.ObjectType, EndSrv.ObjectType)
    /\ createPairID(EndPP, EndSrv) \in processedPairs

\* C24: a ReconcileCable call with a nil A or B endpoint returns an error,
\* makes no remote call and leaves the processed pairs and the remote's
\* cables as they were.
C24_NilEndpointFailsFast ==
    [][(last' # last /\ last'.op = "ReconcileCable" /\ TermOf(NilEnd) \in last'.pair) =>
           /\ ~last'.ok /\ ~last'.passed
           /\ last'.reads = 0 /\ last'.writes = <<>>
           /\ processedPairs' = processedPairs
           /\ cables' = cables /\ nextCableID' = nextCableID]_vars

\* a call with a nil endpoint has returned its error on a reconciler that
\* has processed a pair before, and the pairs hold no entry for the nil call
C24_Witness ==
    /\ last.op = "ReconcileCable" /\ TermOf(NilEnd) \in last.pair /\ ~last.ok
    /\ last.reads = 0 /\ last.writes = <<>>
    /\ processedPairs # {}
    /\ \A a \in Endpoints, b \in Endpoints :
           createPairID(a, b) \in processedPairs =>
               \E t \in touched : {t[1], t[2]} = {TermOf(a), TermOf(b)}
    /\ Cardinality(processedPairs) =
           Cardinality({ createPairID(a, b) : a \in Endpoints, b \in Endpoints }
                       \cap processedPairs)

\* the cable's value under key is the value the link declares
SameAsDeclared(cable, key, declared) == Index(cable, key).k # "nil" /\ Index(cable, key).v = declared

\* C32: verifyCable returns true whenever the existing cable's type, color
\* and length equal the values the link declares, also when the color is
\* declared and stored as the same color name.
C32_EqualValuesVerify ==
    (/\ last.op = "verifyCable"
     /\ last.link # NilLink
     /\ SameAsDeclared(last.cable, "type", last.link.CableType)
     /\ SameAsDeclared(last.cable, "color", last.link.Color)
     /\ SameAsDeclared(last.cable, "length", last.link.Length)) => last.ok

\* C35: when ReconcileCable returns an error for a pair of endpoints, the
\* pair is not in the processed pairs, so that a later call for the pair
\* reconciles it again.
C35_FailedPairNotProcessed ==
    (last.op = "ReconcileCable" /\ ~last.ok) =>
        \A a \in Endpoints, b \in Endpoints :
            {TermOf(a), TermOf(b)} = last.pair => createPairID(a, b) \notin processedPairs

\* C36: a live ReconcileCable call for two distinct ports that found a cable
\* to another port on one of them and sent no request (the cable was kept
\* and the creation skipped) leaves a cable that joins the two ports: the
\* cable it kept ends on the other endpoint, type and id.
C36_KeptCableJoinsThePair ==
    (/\ last.op = "ReconcileCable" /\ last.ok /\ last.passed /\ last.fault = "none"
     /\ ~dryRun /\ Cardinality(last.pair) = 2
     /\ last.stray # {} /\ last.writes = <<>>) =>
        Between(cables, last.pair) # {}

\* C38: a ReconcileCable call whose A and B endpoints are the same port (the
\* same object type and object id) sends no create request.
C38_NoCableFromAPortToItself ==
    (/\ last.op = "ReconcileCable" /\ Cardinality(last.pair) = 1
     /\ TermOf(NilEnd) \notin last.pair) =>
        \A i \in 1..Len(last.writes) : last.writes[i].method # "POST"

(***************************************************************************)
(* Properties of calculateDiff                                             *)
(***************************************************************************)

TagIDSet(tags) == { extractTagIDs(tags)[i] : i \in 1..Len(extractTagIDs(tags)) }

\* how often id occurs in the list ids
CountOf(ids, id) == Cardinality({ i \in 1..Len(ids) : ids[i] = id })

\* C28: for every payload and non-zero managed tag id, the tag list InjectTag
\* produces holds the managed tag id exactly once, whether the payload listed
\* it or not, as a bare id or as a tag object.
C28_ManagedTagExactlyOnce ==
    (last.op = "InjectTag" /\ last.tagID # 0) =>
        /\ last.result["tags"].k = "ints"
        /\ CountOf(last.result["tags"].v, last.tagID) = 1

\* the tag ids one entry of a tag list names
EntryIDs(t) ==
    IF t.k \in {"int", "float64"} THEN {t.v}
    ELSE IF t.k \in {"map", "Object"} /\ Field(t.v, "id").k \in {"int", "float64"}
    THEN {Field(t.v, "id").v}
    ELSE {}

\* the tag ids a "tags" value lists, as a []int or as a []interface{}
ListedIDs(tags) ==
    IF tags.k = "ints" THEN { tags.v[i] : i \in 1..Len(tags.v) }
    ELSE IF tags.k = "list" THEN UNION { EntryIDs(tags.v[i]) : i \in 1..Len(tags.v) }
    ELSE {}

\* C39: InjectTag only adds the managed tag: every key of the payload other
\* than "tags" is in the result with the value it had, and every tag id the
\* payload listed, as a []int or as entries of a []interface{}, is listed in
\* the result.
C39_InjectTagOnlyAdds ==
    last.op = "InjectTag" =>
        /\ \A k \in DOMAIN last.payload \ {"tags"} :
               k \in DOMAIN last.result /\ last.result[k] = last.payload[k]
        /\ "tags" \in DOMAIN last.payload =>
               ListedIDs(last.payload["tags"]) \subseteq ListedIDs(last.result["tags"])

\* C29: tagsEqual(existing, desired) is true exactly when the set of tag ids
\* in existing equals the set of tag ids in desired.
C29_TagsComparedAsSets ==
    last.op = "tagsEqual" =>
        (last.equal <=> TagIDSet(last.existing) = TagIDSet(last.desired))

\* the existing value and the desired value say the same: a number in
\* either numeric type, a reference by its id, a choice by its value, a tag
\* collection by its set of ids
SemanticallyEqual(key, existingValue, desiredValue) ==
    IF key = "tags" THEN TagIDSet(existingValue) = TagIDSet(desiredValue)
    ELSE IF existingValue.k = "map" /\ "id" \in DOMAIN existingValue.v
    THEN desiredValue.k \in {"int", "float64"}
         /\ GetIDFromObject(existingValue) = desiredValue.v
    ELSE IF existingValue.k = "map" /\ "value" \in DOMAIN existingValue.v
    THEN existingValue.v["value"].v = desiredValue.v
    ELSE existingValue.v = desiredValue.v

\* C14: the diff calculateDiff returns holds no key whose desired value is
\* nil and no key whose existing value is semantically equal to the desired
\* value.
C14_DiffMinimal ==
    last.op = "calculateDiff" =>
        \A key \in DOMAIN last.changes :
            /\ last.desired[key] # Nil
            /\ ~(/\ key \in DOMAIN last.existing.v
                 /\ SemanticallyEqual(key, last.existing.v[key], last.desired[key]))

(***************************************************************************)
(* Properties of findPort                                                  *)
(***************************************************************************)

\* the remote's device of the name has the patch-panel role
IsPanel(d) == d.role \in 1..Len(RemoteRoles) /\ RemoteRoles[d.role].slug = R_patchpanel

\* the port findPort answered is the remote's port p, as the object type
Resolved(port, p, objectType) == port.ObjectType = objectType /\ port.ObjectID = p.id

Attached(objs, deviceName, name, rearPort) ==
    \E d \in objs, r \in objs, f \in objs :
        /\ d.endpoint = "devices" /\ d.name = deviceName
        /\ r.endpoint = "rear-ports" /\ r.device = d.id /\ r.name = rearPort
        /\ f.endpoint = "front-ports" /\ f.device = d.id /\ f.name = name
        /\ f.rear_port = r.id

Declares(device, rearPort) ==
    \E j \in 1..Len(device.RearPorts) : device.RearPorts[j].Name = rearPort

\* C8: when a live ReconcileDevices call has returned, with the caches
\* loaded for the first device's site, every front port that device declares
\* on a rear port it declares too is in the remote, attached to that rear
\* port.
C8_FrontPortFindsRearPort ==
    (/\ run.phase \in {"done", "failed"} /\ ~dryRun /\ run.devices # <<>>
     /\ GlobalResources \subseteq DOMAIN cache
     /\ run.devices[1].SiteSlug \in siteLoads) =>
        LET device == run.devices[1] IN
        \A i \in 1..Len(device.FrontPorts) :
            Declares(device, device.FrontPorts[i].RearPort) =>
                Attached(objects, device.Name, device.FrontPorts[i].Name,
                         device.FrontPorts[i].RearPort)

QueuedFor(queue, deviceName, portName) ==
    { k \in 1..Len(queue) :
        queue[k].sourceDevice = deviceName /\ queue[k].sourcePort = portName }

C21_ErrorAbortsOneObject ==
    [][(run.phase = "devices" /\ last'.op = "reconcileDevice" /\ ~last'.ok) =>
           run'.phase = IF run.i < Len(run.devices) THEN "devices" ELSE "cables"]_vars

\* the slug of the role the remote's device has
RoleSlugOf(d) == IF d.role \in 1..Len(RemoteRoles) THEN RemoteRoles[d.role].slug ELSE <<>>

\* the remote holds the peer device of the intent and, on it, a port of the
\* peer port's name and of the kind the two roles call for
Resolvable(objs, pc) ==
    \E d \in objs, p \in objs :
        /\ d.endpoint = "devices" /\ d.name = pc.link.PeerDevice
        /\ p.device = d.id /\ p.name = pc.link.PeerPort
        /\ p.endpoint = portKind(pc.sourceRole, RoleSlugOf(d)).endpoint

SourceEnd(pc) ==
    [DeviceName |-> pc.sourceDevice, PortName |-> pc.sourcePort,
     ObjectType |-> pc.sourceType, ObjectID |-> pc.sourceID]

\* the ports the remote holds for the peer of an intent, as endpoints
PeerEnds(objs, pc) ==
    { [DeviceName |-> pc.link.PeerDevice, PortName |-> p.name,
       ObjectType |-> CHOOSE t \in {T_interface, T_frontport, T_rearport} :
                          PortEndpoint(t) = p.endpoint,
       ObjectID |-> p.id] :
      p \in { p \in objs : \E d \in objs :
                  /\ d.endpoint = "devices" /\ d.name = pc.link.PeerDevice
                  /\ p.device = d.id /\ p.name = pc.link.PeerPort
                  /\ p.endpoint = portKind(pc.sourceRole, RoleSlugOf(d)).endpoint } }

HasRearPort(objs, deviceID, name) ==
    \E r \in objs : r.endpoint = "rear-ports" /\ r.device = deviceID /\ r.name = name

\* the front ports the remote's objects hold on the device under the name
FrontPortsNamed(objs, deviceID, name) ==
    { f \in objs : f.endpoint = "front-ports" /\ f.device = deviceID /\ f.name = name }

\* C23: when reconcileFrontPorts has returned, every declared front port
\* whose rear port the device did not have left the remote's front ports of
\* its name as they were and queued no link, a call in which every front
\* port is such a one returned no error, and the call's outcome is the
\* outcome of the call for the other front ports of the declaration alone.
C23_MissingRearPortSkipped ==
    last.op = "reconcileFrontPorts" =>
        LET Found(port) == HasRearPort(last.before, 1, port.RearPort)
            kept == SelectSeq(last.device.FrontPorts, Found)
        IN  /\ \A i \in 1..Len(last.device.FrontPorts) :
                   ~Found(last.device.FrontPorts[i]) =>
                       /\ FrontPortsNamed(objects, 1, last.device.FrontPorts[i].Name)
                              = FrontPortsNamed(last.before, 1, last.device.FrontPorts[i].Name)
                       /\ QueuedFor(pendingCables, last.device.Name,
                                    last.device.FrontPorts[i].Name)
                              = QueuedFor(last.queue, last.device.Name,
                                          last.device.FrontPorts[i].Name)
            /\ kept = <<>> => last.ok /\ objects = last.before /\ nextObjectID = last.nid
            /\ Step(last.ok, objects, nextObjectID, pendingCables)
                   = reconcileFrontPorts(1, [last.device EXCEPT !.FrontPorts = kept],
                                         managedTagID, dryRun,
                                         Step(TRUE, last.before, last.nid, last.queue))

\* a live call for the front port 2, whose rear port is missing, and then
\* the front port 1, whose rear port is there, has returned without error:
\* no front port 2 is in the remote, and the front port 1 was created
C23_Witness ==
    /\ last.op = "reconcileFrontPorts" /\ last.ok /\ ~dryRun
    /\ Len(last.device.FrontPorts) = 2
    /\ last.device.FrontPorts[1].Name = << "2" >>
    /\ last.device.FrontPorts[2].Name = << "1" >>
    /\ ~HasRearPort(last.before, 1, << "r", "2" >>)
    /\ HasRearPort(last.before, 1, << "r", "1" >>)
    /\ FrontPortsNamed(objects, 1, << "2" >>) = {}
    /\ FrontPortsNamed(last.before, 1, << "1" >>) = {}
    /\ FrontPortsNamed(objects, 1, << "1" >>) # {}

ImpliedBays(deviceTypeID) ==
    { RemoteBayTemplates[k].name :
        k \in { j \in 1..Len(RemoteBayTemplates) :
                  RemoteBayTemplates[j].device_type = deviceTypeID } }

BaysOn(objs, deviceID) ==
    { o.name : o \in { b \in objs : b.endpoint = "device-bays" /\ b.device = deviceID } }

\* C30: for each device, every device bay that the bay templates of its
\* device type imply and that is missing on the device is created before any
\* module of the device is installed: no device bay is written after a
\* module, and when a module is written the device has every implied bay.
C30_BaysBeforeModules ==
    last.op = "reconcileDevice" =>
        /\ \A i \in 1..Len(last.writes) : \A j \in 1..Len(last.writes) :
               (last.writes[i] = "modules" /\ last.writes[j] = "device-bays") => j < i
        /\ (\E i \in 1..Len(last.writes) : last.writes[i] = "modules") =>
               /\ ImpliedBays(last.deviceTypeID) \subseteq BaysOn(last.mid, 1)
               /\ Len(SelectSeq(last.writes, LAMBDA e : e = "device-bays")) =
                      Cardinality(ImpliedBays(last.deviceTypeID) \ BaysOn(last.before, 1))

\* a run that created a missing bay and then wrote a module
C30_Witness ==
    /\ last.op = "reconcileDevice"
    /\ last.ok
    /\ ImpliedBays(last.deviceTypeID) \ BaysOn(last.before, 1) # {}
    /\ \E i \in 1..Len(last.writes) : last.writes[i] = "modules"

\* C33: for the same declarations and the same remote state, the sequence
\* of create, update and delete actions a dry run logs equals the sequence of
\* writes a live run sends, the ports and cables of a device the remote does
\* not hold yet included.
C33_DryRunPreviewsLive ==
    last.op = "preview" => last.logged = last.sent

(***************************************************************************)
(* Properties of runSync                                                   *)
(***************************************************************************)

\* C12: a reconciler of the run looks identifiers up in the cache only when
\* the global scope has been loaded, and ReconcileDevices is called only
\* with the global scope loaded and LoadSite called for every site of the
\* inventory.
C12_ScopeLoadedBeforeLookup ==
    /\ ("lookups" \in DOMAIN last /\ last.lookups > 0) => "sites" \in last.loaded
    /\ sync.pc = "devices" =>
           /\ GlobalResources \subseteq DOMAIN cache
           /\ SitesOf(sync.devices) \subseteq siteLoads

====
